---------------------------- MODULE Spec2Model ----------------------------
(***************************************************************************)
(* Model of the document correction pipeline of the Japanese proofreading  *)
(* system: ProofreadingEngine (rule loading, proofread) and                *)
(* DocumentFormatter (patching of the word-processing body part), both in  *)
(* src/lib/docxFormatter.js.                                               *)
(*                                                                         *)
(* A JavaScript string is a sequence of one-character strings.  Offsets    *)
(* (regex indexes, lastIndex, Change positions) are 0-based as in the      *)
(* source; element i (0-based) of string s is s[i+1].                      *)
(***************************************************************************)
EXTENDS Integers, Sequences, FiniteSets, TLC

(***************************************************************************)
(* Bounds and alphabets.                                                   *)
(***************************************************************************)
\* longest input text handed to proofread
MaxTextLen == 3
\* most rules in a rule table
MaxRules == 2

\* characters of input texts: two ordinary characters and one that is a
\* regular-expression metacharacter
TextChars == {"a", "b", "."}

Str(chars, n) == UNION {[1..k -> chars] : k \in 0..n}

Texts == Str(TextChars, MaxTextLen)

Rule(inc, cor) == [incorrect |-> inc, correct |-> cor]

\* the rules that tables are built from: plain literal forms, a correct form
\* that contains its own incorrect form, two-character forms, a form equal
\* to the correct form, and forms made of metacharacters
RuleUniverse ==
  { Rule(<< <<"a">> >>, <<"b">>),
    Rule(<< <<"a">> >>, <<"a", "a">>),
    Rule(<< <<"b">> >>, <<>>),
    Rule(<< <<"a", "b">> >>, <<"b">>),
    Rule(<< <<"a", "a">> >>, <<"a">>),
    Rule(<< <<"b">>, <<"b", "a">> >>, <<"b">>),
    Rule(<< <<".">> >>, <<"a">>),
    Rule(<< <<".">> >>, <<>>),
    Rule(<< <<"(">> >>, <<"a">>) }

RuleTables == UNION {[1..k -> RuleUniverse] : k \in 0..MaxRules}

\* what the rule file can be when the engine is constructed
Sources == {"missing", "unreadable", "unparseable", "null", "noRules", "ok"}

(***************************************************************************)
(* Regular expressions, as far as the alphabets above reach: a pattern is  *)
(* a sequence of atoms, "." matches any character but a line terminator,   *)
(* "(" opens a group that is never closed, every other character matches   *)
(* itself.                                                                 *)
(***************************************************************************)
LineTerminators == {"\n", "\r"}

\* the character class of the regex literal in escapeRegExp
EscapeClass == {".", "*", "+", "?", "^", "$", "{", "}", "(", ")", "|", "[", "\\"}

\* string.replace(/[.*+?^${}()|[\\]\\\\]/g, '\\\\$&'): the literal matches
\* one character of the class followed by two backslashes and "]", and the
\* replacement puts two backslashes before the match
RECURSIVE EscapeFrom(_, _)
EscapeFrom(s, i) ==
  LET at == {j \in i..(Len(s) - 3) :
               /\ s[j] \in EscapeClass
               /\ s[j+1] = "\\" /\ s[j+2] = "\\" /\ s[j+3] = "]"}
  IN  IF at = {} THEN SubSeq(s, i, Len(s))
      ELSE LET j == CHOOSE m \in at : \A n \in at : m <= n IN
           SubSeq(s, i, j - 1) \o <<"\\", "\\">> \o SubSeq(s, j, j+3)
           \o EscapeFrom(s, j+4)

escapeRegExp(s) == EscapeFrom(s, 1)

\* new RegExp(pattern, 'g') throws a SyntaxError for an unterminated group
RegExpCompiles(p) == \A i \in 1..Len(p) : p[i] # "("

AtomMatches(atom, ch) ==
  IF atom = "." THEN ch \notin LineTerminators ELSE atom = ch

\* the pattern matches s at 0-based index i
MatchesAt(p, s, i) ==
  /\ i + Len(p) <= Len(s)
  /\ \A k \in 1..Len(p) : AtomMatches(p[k], s[i+k])

\* index of the leftmost match at or after lastIndex, -1 for none
FirstMatch(p, s, lastIndex) ==
  LET at == {i \in lastIndex..Len(s) : MatchesAt(p, s, i)} IN
  IF at = {} THEN -1 ELSE CHOOSE i \in at : \A j \in at : i <= j

\* s.replace(new RegExp(p, 'g'), r), r holding no "$"
RECURSIVE ReplaceFrom(_, _, _, _)
ReplaceFrom(p, s, r, from) ==
  LET idx == FirstMatch(p, s, from) IN
  IF idx = -1 THEN SubSeq(s, from + 1, Len(s))
  ELSE SubSeq(s, from + 1, idx) \o r \o
       (IF Len(p) = 0
        THEN IF idx < Len(s)
             THEN <<s[idx + 1]>> \o ReplaceFrom(p, s, r, idx + 1)
             ELSE <<>>
        ELSE ReplaceFrom(p, s, r, idx + Len(p)))

\* replace without the g flag: the first match only
ReplaceFirstMatch(p, s, r) ==
  LET idx == FirstMatch(p, s, 0) IN
  IF idx = -1 THEN s
  ELSE SubSeq(s, 1, idx) \o r \o SubSeq(s, idx + Len(p) + 1, Len(s))

ReplaceAll(p, s, r) == ReplaceFrom(p, s, r, 0)

\* the while loop around regex.exec: one match record per iteration, and
\* lastIndex pushed on by one after an empty match
RECURSIVE ExecLoop(_, _, _, _)
ExecLoop(p, s, formLen, lastIndex) ==
  LET idx == FirstMatch(p, s, lastIndex) IN
  IF idx = -1 THEN <<>>
  ELSE LET after == idx + Len(p)
           next  == IF after = idx THEN after + 1 ELSE after
       IN  << [start |-> idx, end |-> idx + formLen,
               text |-> SubSeq(s, idx + 1, idx + Len(p))] >>
           \o ExecLoop(p, s, formLen, next)

(***************************************************************************)
(* ProofreadingEngine                                                      *)
(***************************************************************************)
\* loadRules: what this.rules becomes; defined is FALSE for undefined
loadRules(src, tbl) ==
  CASE src \in {"missing", "unreadable"} -> [defined |-> TRUE, rules |-> <<>>]
    [] src = "unparseable"               -> [defined |-> TRUE, rules |-> <<>>]
    [] src = "null"                      -> [defined |-> TRUE, rules |-> <<>>]
    [] src = "noRules"                   -> [defined |-> FALSE, rules |-> <<>>]
    [] OTHER                             -> [defined |-> TRUE, rules |-> tbl]

MakeChange(form, rule, m) ==
  [original |-> form, corrected |-> rule.correct,
   start |-> m.start, end |-> m.end, rule |-> rule]

\* the body of the inner for loop without the test for a form equal to the
\* correct form
PairStepUnguarded(working, changes, rule, form) ==
  IF ~RegExpCompiles(escapeRegExp(form))
  THEN [threw |-> TRUE, text |-> working, changes |-> changes]
  ELSE LET p == escapeRegExp(form)
           matches == ExecLoop(p, working, Len(form), 0)
       IN  IF Len(matches) > 0
           THEN [threw |-> FALSE,
                 text |-> ReplaceAll(p, working, rule.correct),
                 changes |-> changes \o
                   [k \in 1..Len(matches) |-> MakeChange(form, rule, matches[k])]]
           ELSE [threw |-> FALSE, text |-> working, changes |-> changes]

\* the body of the inner for loop for one (rule, form) pair, from the working
\* text and the changes so far
PairStep(working, changes, rule, form) ==
  IF form = rule.correct
  THEN [threw |-> FALSE, text |-> working, changes |-> changes]
  ELSE IF ~RegExpCompiles(escapeRegExp(form))
  THEN [threw |-> TRUE, text |-> working, changes |-> changes]
  ELSE LET p == escapeRegExp(form)
           matches == ExecLoop(p, working, Len(form), 0)
       IN  IF Len(matches) > 0
           THEN [threw |-> FALSE,
                 text |-> ReplaceAll(p, working, rule.correct),
                 changes |-> changes \o
                   [k \in 1..Len(matches) |-> MakeChange(form, rule, matches[k])]]
           ELSE [threw |-> FALSE, text |-> working, changes |-> changes]

\* allChanges.sort((a, b) => b.position.start - a.position.start): a stable
\* sort by descending start
RECURSIVE InsertDesc(_, _)
InsertDesc(sorted, c) ==
  IF sorted = <<>> THEN <<c>>
  ELSE IF sorted[Len(sorted)].start >= c.start THEN Append(sorted, c)
  ELSE Append(InsertDesc(SubSeq(sorted, 1, Len(sorted) - 1), c), sorted[Len(sorted)])

RECURSIVE SortFrom(_, _, _)
SortFrom(changes, k, sorted) ==
  IF k > Len(changes) THEN sorted
  ELSE SortFrom(changes, k + 1, InsertDesc(sorted, changes[k]))

\* the changes left in the order they were recorded
KeepOrder(changes) == changes

SortChanges(changes) == SortFrom(changes, 1, <<>>)

NoResult == [originalText |-> <<>>, correctedText |-> <<>>,
             changes |-> <<>>, totalChanges |-> 0]


(***************************************************************************)
(* Strings of the document code                                            *)
(***************************************************************************)
WhiteSpace == {" ", "\t", "\n", "\r"}

RECURSIVE TrimStart(_)
TrimStart(s) ==
  IF s # <<>> /\ s[1] \in WhiteSpace THEN TrimStart(Tail(s)) ELSE s

RECURSIVE TrimEnd(_)
TrimEnd(s) ==
  IF s # <<>> /\ s[Len(s)] \in WhiteSpace
  THEN TrimEnd(SubSeq(s, 1, Len(s) - 1)) ELSE s

\* String.prototype.trim
Trim(s) == TrimEnd(TrimStart(s))

RECURSIVE Flatten(_)
Flatten(ss) == IF ss = <<>> THEN <<>> ELSE ss[1] \o Flatten(Tail(ss))

\* index of the first occurrence of pat in m at or after from, -1 for none
IndexOf(m, pat, from) ==
  LET at == {i \in from..(Len(m) - Len(pat)) :
               \A k \in 1..Len(pat) : m[i + k] = pat[k]}
  IN  IF at = {} THEN -1 ELSE CHOOSE i \in at : \A j \in at : i <= j

\* m.replace(pat, rep) with a string pattern: the first occurrence only
\* (rep holding no "$")
StrReplaceFirst(m, pat, rep) ==
  LET idx == IndexOf(m, pat, 0) IN
  IF idx = -1 THEN m
  ELSE SubSeq(m, 1, idx) \o rep \o SubSeq(m, idx + Len(pat) + 1, Len(m))

(***************************************************************************)
(* The body part (word/document.xml) as a string, and the text run         *)
(* elements in it.                                                         *)
(***************************************************************************)
OpenTag == <<"<", "w", ":", "t", ">">>
CloseTag == <<"<", "/", "w", ":", "t", ">">>

RunXml(text) == OpenTag \o text \o CloseTag

\* first index at or after from of a character in (TRUE) or not in (FALSE)
\* the set, Len(x) for none
Scan(x, from, set, in) ==
  LET at == {i \in from..(Len(x) - 1) : (x[i + 1] \in set) = in} IN
  IF at = {} THEN Len(x) ELSE CHOOSE i \in at : \A j \in at : i <= j

\* the match of /<w:t[^>]*>([^<]*)<\/w:t>/ that starts at index i, if any
TextTagAt(x, i) ==
  IF ~(i + 4 <= Len(x) /\ SubSeq(x, i + 1, i + 4) = <<"<", "w", ":", "t">>)
  THEN [found |-> FALSE, text |-> <<>>, end |-> i]
  ELSE LET gt == Scan(x, i + 4, {">"}, TRUE)
           lt == Scan(x, gt + 1, {"<"}, TRUE)
       IN  IF /\ gt < Len(x)
              /\ lt + 6 <= Len(x)
              /\ SubSeq(x, lt + 1, lt + 6) = CloseTag
           THEN [found |-> TRUE, text |-> SubSeq(x, gt + 2, lt), end |-> lt + 6]
           ELSE [found |-> FALSE, text |-> <<>>, end |-> i]

\* x cut into the matches of textTagRegex (run |-> TRUE, with the captured
\* text) and the single characters between them, left to right
RECURSIVE Segments(_, _)
Segments(x, i) ==
  IF i >= Len(x) THEN <<>>
  ELSE LET m == TextTagAt(x, i) IN
       IF m.found
       THEN <<[run |-> TRUE, s |-> SubSeq(x, i + 1, m.end), text |-> m.text]>>
            \o Segments(x, m.end)
       ELSE <<[run |-> FALSE, s |-> <<x[i + 1]>>, text |-> <<>>]>>
            \o Segments(x, i + 1)

\* the captured texts of the runs of x, in document order
RunTexts(x) ==
  LET segs == Segments(x, 0)
      RECURSIVE Pick(_)
      Pick(k) == IF k > Len(segs) THEN <<>>
                 ELSE (IF segs[k].run THEN <<segs[k].text>> ELSE <<>>) \o Pick(k + 1)
  IN  Pick(1)

(***************************************************************************)
(* DocumentParser.extractTextWithTables, for a body part without tables    *)
(***************************************************************************)
\* replace(/<[^>]+>/g, ' ')
RECURSIVE StripTags(_, _)
StripTags(x, i) ==
  IF i >= Len(x) THEN <<>>
  ELSE LET gt == Scan(x, i + 1, {">"}, TRUE) IN
       IF x[i + 1] = "<" /\ gt > i + 1 /\ gt < Len(x)
       THEN <<" ">> \o StripTags(x, gt + 1)
       ELSE <<x[i + 1]>> \o StripTags(x, i + 1)

\* replace(/\s+/g, ' ')
RECURSIVE CollapseSpace(_, _)
CollapseSpace(s, i) ==
  IF i >= Len(s) THEN <<>>
  ELSE IF s[i + 1] \in WhiteSpace
       THEN <<" ">> \o CollapseSpace(s, Scan(s, i, WhiteSpace, FALSE))
       ELSE <<s[i + 1]>> \o CollapseSpace(s, i + 1)

extractTextWithTables(x) == Trim(CollapseSpace(StripTags(x, 0), 0))

(***************************************************************************)
(* DocumentFormatter.applyCorrectionToXml                                  *)
(***************************************************************************)
\* the pre-correction text is short enough for the whole-text step
ShortTextLimit == 100

HasRun(x) == \E k \in 1..Len(Segments(x, 0)) : Segments(x, 0)[k].run

\* the SyntaxError of new RegExp swallowed inside the callback
ApplyChangeSwallowed(x, change) == FALSE

\* one iteration of changes.forEach: the replace callback builds the regex of
\* change.original and rewrites the text of every run
ApplyChangeThrows(x, change) ==
  HasRun(x) /\ ~RegExpCompiles(escapeRegExp(change.original))

ApplyChangeToRun(match, textContent, change) ==
  StrReplaceFirst(match, textContent,
    ReplaceAll(escapeRegExp(change.original), textContent, change.corrected))

ApplyChange(x, change) ==
  LET segs == Segments(x, 0) IN
  Flatten([k \in 1..Len(segs) |->
             IF segs[k].run
             THEN ApplyChangeToRun(segs[k].s, segs[k].text, change)
             ELSE segs[k].s])

\* the condition with the limit itself let through
ShortTextGuardUpTo(orig, corr) ==
  orig # <<>> /\ corr # <<>> /\ Len(orig) <= ShortTextLimit

\* if (originalText && correctedText && originalText.length < 100)
ShortTextGuard(orig, corr) ==
  orig # <<>> /\ corr # <<>> /\ Len(orig) < ShortTextLimit

\* the callback of the whole-text step: a run whose trimmed text is the
\* trimmed pre-correction text gets correctedText, any other run gets the
\* pre-correction text replaced inside it
ShortTextThrows(x, orig) ==
  /\ \E k \in 1..Len(Segments(x, 0)) :
       /\ Segments(x, 0)[k].run
       /\ Trim(Segments(x, 0)[k].text) # Trim(orig)
  /\ ~RegExpCompiles(escapeRegExp(Trim(orig)))

ShortTextRun(match, textContent, orig, corr) ==
  IF Trim(textContent) = Trim(orig)
  THEN StrReplaceFirst(match, textContent, corr)
  ELSE StrReplaceFirst(match, textContent,
         ReplaceAll(escapeRegExp(Trim(orig)), textContent, Trim(corr)))

ShortTextStep(x, orig, corr) ==
  LET segs == Segments(x, 0) IN
  Flatten([k \in 1..Len(segs) |->
             IF segs[k].run
             THEN ShortTextRun(segs[k].s, segs[k].text, orig, corr)
             ELSE segs[k].s])

\* the step applyCorrectionToXml takes first when the ledger would be taken
\* only after a failed exact-match check
FirstStepTiered(x, orig) ==
  IF Trim(Flatten(RunTexts(x))) = Trim(orig) THEN "short" ELSE "ledger"

\* the step applyCorrectionToXml takes first: the changes.forEach comes
\* before the whole-text step and stands under no condition on the texts
FirstStep(x, orig) == "ledger"

\* changes.forEach from change k on, for a ledger no entry of which throws
RECURSIVE LedgerFold(_, _, _)
LedgerFold(x, chs, k) ==
  IF k > Len(chs) THEN x ELSE LedgerFold(ApplyChange(x, chs[k]), chs, k + 1)

\* the value applyCorrectionToXml returns when nothing throws
applyCorrectionToXml(x, orig, corr, chs) ==
  LET ledgered == LedgerFold(x, chs, 1) IN
  IF ShortTextGuard(orig, corr) THEN ShortTextStep(ledgered, orig, corr)
  ELSE ledgered

(***************************************************************************)
(* Inputs of the document pipeline                                         *)
(***************************************************************************)
\* most runs in a body part
MaxRuns == 2

\* texts a run can hold
RunContents == {<<>>, <<"a">>, <<"b">>, <<"a", "b">>, <<"a", " ">>}

Docs == {Flatten([k \in 1..Len(rs) |-> RunXml(rs[k])]) :
           rs \in UNION {[1..n -> RunContents] : n \in 0..MaxRuns}}

\* the rules of the tables documents are corrected with
DocRules ==
  { Rule(<< <<"a">> >>, <<"b">>),
    Rule(<< <<"a">> >>, <<"a", "a">>),
    Rule(<< <<"b">> >>, <<>>),
    Rule(<< <<"a", "b">> >>, <<"b">>),
    Rule(<< <<".">> >>, <<"a">>) }

DocTables == UNION {[1..k -> DocRules] : k \in 0..MaxRules}

VARIABLES
  source,         \* state of the rule file at construction
  table,          \* the rule list the file holds when it can be read
  rulesDefined,   \* this.rules is not undefined
  rules,          \* this.rules
  pc,             \* position of the engine: new, idle, loop, done, threw
  pass,           \* number of proofread calls started
  originalText,   \* proofread: const originalText
  correctedText,  \* proofread: let correctedText (the working text)
  allChanges,     \* proofread: const allChanges
  ri,             \* index of the rule of the outer for loop
  fi,             \* index of the form of the inner for loop
  result,         \* the value proofread returned last
  firstResult,    \* the value the first proofread call returned
  xml,            \* word/document.xml of the original package
  stage,          \* position of the document pipeline: none, start, parsed,
                  \* ledger, short, applied, serialized, failed
  argOriginalText,  \* generateCorrectedDocx: originalText
  argCorrectedText, \* generateCorrectedDocx: correctedText
  changes,        \* generateCorrectedDocx: changes
  ci,             \* index of the change of changes.forEach
  correctedXml,   \* applyCorrectionToXml: let correctedXml
  outXml,         \* word/document.xml of the returned package
  workbook,       \* the cells of the sheet of the original spreadsheet package
  worksheet,      \* generateCorrectedXlsx: the cells of the sheet read from it
  changeMap,      \* generateCorrectedXlsx: const changeMap, in insertion order
  cellAddress,    \* index of the key Object.keys(worksheet).forEach is at
  rewritten,      \* indexes of the cells whose v and w were assigned
  outWorkbook,    \* the cells of the written spreadsheet package
  buffer,         \* parseBuffer: buffer (its length and what it holds)
  fileName,       \* parseBuffer: fileName
  mimeType,       \* parseBuffer: mimeType
  parseResult,    \* the value parseBuffer returned
  opened,         \* a package of the buffer was opened or its text decoded
  extension,      \* generateCorrectedFile: extension
  single,         \* the engine of the single-record implementation: its
                  \* position and the locals of its proofread
  calls           \* the invocations in progress on the shared instances, each
                  \* with its arguments, position, locals and result

engineVars == <<source, table, rulesDefined, rules, pc, pass, originalText,
                correctedText, allChanges, ri, fi, result, firstResult>>

docVars == <<xml, stage, argOriginalText, argCorrectedText, changes, ci,
             correctedXml, outXml>>

xlsxVars == <<workbook, worksheet, changeMap, cellAddress, rewritten,
              outWorkbook>>

callVars == <<buffer, fileName, mimeType, parseResult, opened, extension>>

peerVars == <<single, calls>>

vars == <<engineVars, docVars, xlsxVars, callVars, peerVars>>

EngineInit ==
  /\ rulesDefined = FALSE
  /\ rules = <<>>
  /\ pc = "new"
  /\ pass = 0
  /\ originalText = <<>>
  /\ correctedText = <<>>
  /\ allChanges = <<>>
  /\ ri = 1
  /\ fi = 1
  /\ result = NoResult
  /\ firstResult = NoResult

DocInit ==
  /\ argOriginalText = <<>>
  /\ argCorrectedText = <<>>
  /\ changes = <<>>
  /\ ci = 1
  /\ correctedXml = <<>>
  /\ outXml = <<>>

XlsxInit ==
  /\ worksheet = <<>>
  /\ changeMap = <<>>
  /\ cellAddress = 1
  /\ rewritten = {}
  /\ outWorkbook = <<>>

\* no buffer
NoBuffer == [length |-> 0, holds |-> "none", chars |-> <<>>]

\* parseBuffer has not returned
NotParsed == [returned |-> FALSE, success |-> FALSE, error |-> "none",
              text |-> <<>>]

CallInit ==
  /\ parseResult = NotParsed
  /\ opened = FALSE

SingleIdle == [pc |-> "idle", ri |-> 1, fi |-> 1, correctedText |-> <<>>,
               allChanges |-> <<>>, result |-> NoResult]

PeerInit ==
  /\ single = SingleIdle
  /\ calls = <<>>

\* no file is involved
NoFile ==
  /\ workbook = <<>>
  /\ buffer = NoBuffer
  /\ fileName = <<>>
  /\ mimeType = "none"
  /\ extension = "none"

\* the engine alone, proofreading texts
Init ==
  /\ source \in Sources
  /\ table \in (IF source = "ok" THEN RuleTables ELSE {<<>>})
  /\ EngineInit
  /\ xml = <<>>
  /\ stage = "none"
  /\ DocInit
  /\ XlsxInit
  /\ CallInit
  /\ PeerInit
  /\ NoFile

\* constructor: this.rules = this.loadRules()
Construct ==
  /\ pc = "new"
  /\ rulesDefined' = loadRules(source, table).defined
  /\ rules' = loadRules(source, table).rules
  /\ pc' = "idle"
  /\ UNCHANGED <<source, table, pass, originalText, correctedText, allChanges,
                 ri, fi, result, firstResult, docVars>>
  /\ UNCHANGED <<xlsxVars, callVars, peerVars>>

\* proofread(text) up to the first evaluation of the outer for loop's
\* iterable, which throws a TypeError when this.rules is undefined
Begin(text) ==
  /\ originalText' = text
  /\ correctedText' = text
  /\ allChanges' = <<>>
  /\ ri' = 1
  /\ fi' = 1
  /\ pass' = pass + 1
  /\ pc' = IF rulesDefined THEN "loop" ELSE "threw"
  /\ UNCHANGED <<source, table, rulesDefined, rules, result, firstResult>>
  /\ UNCHANGED <<xlsxVars, callVars, peerVars>>

ProofreadBegin ==
  /\ pc = "idle"
  /\ pass = 0
  /\ stage = "none"
  /\ \E text \in Texts : Begin(text)
  /\ UNCHANGED docVars

\* a second call of proofread, on the corrected text of the first
ProofreadAgain ==
  /\ pc = "done"
  /\ pass = 1
  /\ stage = "none"
  /\ Begin(result.correctedText)
  /\ UNCHANGED docVars

\* an iteration of the inner for loop that does not move on to the next form
ProofreadPairAgain ==
  /\ pc = "loop"
  /\ ri <= Len(rules)
  /\ fi <= Len(rules[ri].incorrect)
  /\ LET r == PairStep(correctedText, allChanges, rules[ri], rules[ri].incorrect[fi])
     IN  /\ correctedText' = r.text
         /\ allChanges' = r.changes
         /\ pc' = IF r.threw THEN "threw" ELSE "loop"
         /\ fi' = fi
  /\ UNCHANGED <<source, table, rulesDefined, rules, pass, originalText, ri,
                 result, firstResult, docVars>>
  /\ UNCHANGED <<xlsxVars, callVars, peerVars>>

\* one iteration of the inner for loop
ProofreadPair ==
  /\ pc = "loop"
  /\ ri <= Len(rules)
  /\ fi <= Len(rules[ri].incorrect)
  /\ LET r == PairStep(correctedText, allChanges, rules[ri], rules[ri].incorrect[fi])
     IN  /\ correctedText' = r.text
         /\ allChanges' = r.changes
         /\ pc' = IF r.threw THEN "threw" ELSE "loop"
         /\ fi' = IF r.threw THEN fi ELSE fi + 1
  /\ UNCHANGED <<source, table, rulesDefined, rules, pass, originalText, ri,
                 result, firstResult, docVars>>
  /\ UNCHANGED <<xlsxVars, callVars, peerVars>>

\* the inner for loop ends, the outer one moves to the next rule
ProofreadNextRule ==
  /\ pc = "loop"
  /\ ri <= Len(rules)
  /\ fi > Len(rules[ri].incorrect)
  /\ ri' = ri + 1
  /\ fi' = 1
  /\ UNCHANGED <<source, table, rulesDefined, rules, pc, pass, originalText,
                 correctedText, allChanges, result, firstResult, docVars>>
  /\ UNCHANGED <<xlsxVars, callVars, peerVars>>

\* after the loops: sort the changes and return the result
ProofreadReturn ==
  /\ pc = "loop"
  /\ ri > Len(rules)
  /\ LET sorted == SortChanges(allChanges)
         res == [originalText |-> originalText, correctedText |-> correctedText,
                 changes |-> sorted, totalChanges |-> Len(sorted)]
     IN  /\ allChanges' = sorted
         /\ result' = res
         /\ firstResult' = IF pass = 1 THEN res ELSE firstResult
  /\ pc' = "done"
  /\ UNCHANGED <<source, table, rulesDefined, rules, pass, originalText,
                 correctedText, ri, fi, docVars>>
  /\ UNCHANGED <<xlsxVars, callVars, peerVars>>

Next ==
  \/ Construct
  \/ ProofreadBegin
  \/ ProofreadPair
  \/ ProofreadNextRule
  \/ ProofreadReturn
  \/ ProofreadAgain

Spec == Init /\ [][Next]_vars

(***************************************************************************)
(* The document pipeline: the text of a word-processing package is         *)
(* extracted, proofread, and the package is regenerated from the result.   *)
(***************************************************************************)
DocPipelineInit ==
  /\ source = "ok"
  /\ table \in DocTables
  /\ EngineInit
  /\ xml \in Docs
  /\ stage = "start"
  /\ DocInit
  /\ XlsxInit
  /\ CallInit
  /\ PeerInit
  /\ NoFile

\* documentXml is undefined (no word/document.xml in the package) or the
\* empty string: if (!documentXml) throws
BodyPartMissing(x) == x = <<>>

\* parseDocx, then proofread on the extracted text; without a body part
\* parseDocx throws, the extraction fails and nothing is proofread
ParseAndProofread ==
  /\ pc = "idle"
  /\ stage = "start"
  /\ IF BodyPartMissing(xml)
     THEN /\ stage' = "failed"
          /\ UNCHANGED <<engineVars, xlsxVars, callVars, peerVars>>
     ELSE /\ Begin(extractTextWithTables(xml))
          /\ stage' = "parsed"
  /\ UNCHANGED <<xml, argOriginalText, argCorrectedText, changes, ci,
                 correctedXml, outXml>>

\* generateCorrectedDocx is called with the proofread result; the change
\* list is the result's, or empty when the caller sends none; the body part
\* is read and applyCorrectionToXml starts
GenerateBegin ==
  /\ pc = "done"
  /\ stage = "parsed"
  /\ argOriginalText' = result.originalText
  /\ argCorrectedText' = result.correctedText
  /\ changes' \in {result.changes, <<>>}
  /\ ci' = 1
  /\ correctedXml' = xml
  /\ stage' = IF BodyPartMissing(xml) THEN "failed"
              ELSE FirstStep(xml, result.originalText)
  /\ UNCHANGED <<engineVars, xml, outXml>>
  /\ UNCHANGED <<xlsxVars, callVars, peerVars>>

\* one iteration of changes.forEach
LedgerChange ==
  /\ stage = "ledger"
  /\ ci <= Len(changes)
  /\ IF ApplyChangeThrows(correctedXml, changes[ci])
     THEN stage' = "failed" /\ UNCHANGED <<correctedXml, ci>>
     ELSE /\ correctedXml' = ApplyChange(correctedXml, changes[ci])
          /\ ci' = ci + 1
          /\ stage' = "ledger"
  /\ UNCHANGED <<engineVars, xml, argOriginalText, argCorrectedText, changes,
                 outXml>>
  /\ UNCHANGED <<xlsxVars, callVars, peerVars>>

\* forEach is over
LedgerDone ==
  /\ stage = "ledger"
  /\ ci > Len(changes)
  /\ stage' = "short"
  /\ UNCHANGED <<engineVars, xml, argOriginalText, argCorrectedText, changes,
                 ci, correctedXml, outXml>>
  /\ UNCHANGED <<xlsxVars, callVars, peerVars>>

\* the whole-text step, taken for a short pre-correction text
ShortText ==
  /\ stage = "short"
  /\ IF ~ShortTextGuard(argOriginalText, argCorrectedText)
     THEN stage' = "applied" /\ UNCHANGED correctedXml
     ELSE IF ShortTextThrows(correctedXml, argOriginalText)
     THEN stage' = "failed" /\ UNCHANGED correctedXml
     ELSE /\ correctedXml' = ShortTextStep(correctedXml, argOriginalText,
                                           argCorrectedText)
          /\ stage' = "applied"
  /\ UNCHANGED <<engineVars, xml, argOriginalText, argCorrectedText, changes,
                 ci, outXml>>
  /\ UNCHANGED <<xlsxVars, callVars, peerVars>>

\* zipContent.file('word/document.xml', correctedXml) and generateAsync
Serialize ==
  /\ stage = "applied"
  /\ outXml' = correctedXml
  /\ stage' = "serialized"
  /\ UNCHANGED <<engineVars, xml, argOriginalText, argCorrectedText, changes,
                 ci, correctedXml>>
  /\ UNCHANGED <<xlsxVars, callVars, peerVars>>

DocNext ==
  \/ Construct
  \/ ParseAndProofread
  \/ ProofreadPair
  \/ ProofreadNextRule
  \/ ProofreadReturn
  \/ GenerateBegin
  \/ LedgerChange
  \/ LedgerDone
  \/ ShortText
  \/ Serialize

DocSpec == DocPipelineInit /\ [][DocNext]_vars


(***************************************************************************)
(* generateCorrectedDocx called on its own, with a package, texts and a    *)
(* change ledger of the caller's choosing.                                 *)
(***************************************************************************)
Entry(o, c) == [original |-> o, corrected |-> c]

\* most entries in a ledger handed to the formatter
MaxLedger == 2

\* ledger entries: plain ones, one whose original is a character of the
\* tag markup, one that deletes, and two whose original is a metacharacter
PatchEntries ==
  { Entry(<<"a">>, <<"b">>),
    Entry(<<"t">>, <<"a">>),
    Entry(<<"a">>, <<>>),
    Entry(<<".">>, <<"a">>),
    Entry(<<"(">>, <<"a">>) }

PatchLedgers == UNION {[1..k -> PatchEntries] : k \in 0..MaxLedger}

\* run texts: empty, whitespace only, a character of the tag markup, plain
PatchRunContents == {<<>>, <<" ">>, <<"t">>, <<"a">>}

\* a run inside a run element with a formatting property
RunElement(text) ==
  <<"<", "w", ":", "r", ">", "<", "w", ":", "b", "/", ">">> \o RunXml(text)
  \o <<"<", "/", "w", ":", "r", ">">>

\* body parts: bare runs, runs with markup around them, and none at all
PatchDocs ==
  {Flatten([k \in 1..Len(rs) |-> RunXml(rs[k])]) :
     rs \in UNION {[1..n -> PatchRunContents] : n \in 0..MaxRuns}}
  \cup {RunElement(t) : t \in PatchRunContents}

PatchOriginals == {<<>>, <<" ">>, <<"t">>, <<"a">>, <<"(">>}
PatchCorrecteds == {<<>>, <<"a">>, <<"b">>}

PatchInit ==
  /\ source = "ok"
  /\ table = <<>>
  /\ EngineInit
  /\ xml \in PatchDocs
  /\ stage = "call"
  /\ argOriginalText \in PatchOriginals
  /\ argCorrectedText \in PatchCorrecteds
  /\ changes \in PatchLedgers
  /\ ci = 1
  /\ correctedXml = <<>>
  /\ outXml = <<>>
  /\ XlsxInit
  /\ CallInit
  /\ PeerInit
  /\ NoFile

\* generateCorrectedDocx: the package is loaded, the body part is read and
\* applyCorrectionToXml starts; without a body part it throws
DocxCall ==
  /\ stage = "call"
  /\ IF BodyPartMissing(xml)
     THEN stage' = "failed" /\ UNCHANGED correctedXml
     ELSE /\ correctedXml' = xml
          /\ stage' = FirstStep(xml, argOriginalText)
  /\ UNCHANGED <<engineVars, xml, argOriginalText, argCorrectedText, changes,
                 ci, outXml, xlsxVars, callVars, peerVars>>

PatchNext ==
  \/ DocxCall
  \/ LedgerChange
  \/ LedgerDone
  \/ ShortText
  \/ Serialize

PatchSpec == PatchInit /\ [][PatchNext]_vars

(***************************************************************************)
(* DocumentFormatter.generateCorrectedXlsx.  A sheet is the sequence of    *)
(* its keys in Object.keys order, each with the cell object under it: the  *)
(* cells of row 1 from column A on, then the "!ref" entry.  A cell has the *)
(* type t, the value v (as the sheet part writes it) and the cached        *)
(* display string w.                                                       *)
(***************************************************************************)
Cell(t, v, w) == [t |-> t, v |-> v, w |-> w]

\* most cells in the sheet
MaxCells == 2

\* string cells (one of them empty), a number, a boolean and a date whose
\* display strings hold characters that ledger originals are made of
CellUniverse ==
  { Cell("s", <<"a">>, <<"a">>),
    Cell("s", <<"a", "b">>, <<"a", "b">>),
    Cell("s", <<"b">>, <<"b">>),
    Cell("s", <<>>, <<>>),
    Cell("n", <<"1">>, <<"1">>),
    Cell("b", <<"1">>, <<"T", "R", "U", "E">>),
    Cell("d", <<"1">>, <<"1", ".", "1">>) }

ColumnKeys == << <<"A", "1">>, <<"B", "1">>, <<"C", "1">> >>
RefKey == <<"!", "r", "e", "f">>
RefEntry == [key |-> RefKey, cell |-> Cell("none", <<>>, <<>>)]

\* the sheet object XLSX.read builds for a row of cells
Sheet(cells) ==
  [k \in 1..Len(cells) |-> [key |-> ColumnKeys[k], cell |-> cells[k]]]
  \o <<RefEntry>>

Workbooks == UNION {[1..n -> CellUniverse] : n \in 0..MaxCells}

\* changeMap.set(change.original, change.corrected): a key that is in the
\* map keeps its place and gets the new value, a new key goes to the end
MapSet(map, original, corrected) ==
  IF \E k \in 1..Len(map) : map[k].original = original
  THEN [k \in 1..Len(map) |->
          IF map[k].original = original THEN Entry(original, corrected)
          ELSE map[k]]
  ELSE Append(map, Entry(original, corrected))

\* changes.forEach(change => changeMap.set(...)) from change k on
RECURSIVE BuildChangeMap(_, _, _)
BuildChangeMap(chs, k, map) ==
  IF k > Len(chs) THEN map
  ELSE BuildChangeMap(chs, k + 1, MapSet(map, chs[k].original, chs[k].corrected))

\* cellAddress.startsWith('!')
IsMetadataKey(key) == Len(key) > 0 /\ key[1] = "!"

\* every cell with a value is taken, whatever its type
HasValue(cell) == cell.v # <<>>

\* cell && cell.t === 's' && cell.v
IsStringCell(cell) == cell.t = "s" /\ cell.v # <<>>

\* changeMap.forEach on one cell value, from map entry k on
RECURSIVE SubstituteFrom(_, _, _, _)
SubstituteFrom(map, k, cellValue, hasChanged) ==
  IF k > Len(map)
  THEN [threw |-> FALSE, cellValue |-> cellValue, hasChanged |-> hasChanged]
  ELSE IF ~RegExpCompiles(escapeRegExp(map[k].original))
  THEN [threw |-> TRUE, cellValue |-> cellValue, hasChanged |-> hasChanged]
  ELSE LET newValue == ReplaceAll(escapeRegExp(map[k].original), cellValue,
                                  map[k].corrected)
       IN  IF newValue # cellValue
           THEN SubstituteFrom(map, k + 1, newValue, TRUE)
           ELSE SubstituteFrom(map, k + 1, cellValue, hasChanged)

XlsxEntries ==
  { Entry(<<"a">>, <<"b">>),
    Entry(<<"a">>, <<"c">>),
    Entry(<<"b">>, <<"a">>),
    Entry(<<"1">>, <<"2">>),
    Entry(<<".">>, <<"a">>),
    Entry(<<"(">>, <<"a">>) }

XlsxLedgers == UNION {[1..k -> XlsxEntries] : k \in 0..MaxLedger}

XlsxCallInit ==
  /\ source = "ok"
  /\ table = <<>>
  /\ EngineInit
  /\ xml = <<>>
  /\ stage = "xcall"
  /\ argOriginalText = <<>>
  /\ argCorrectedText = <<>>
  /\ changes \in XlsxLedgers
  /\ ci = 1
  /\ correctedXml = <<>>
  /\ outXml = <<>>
  /\ workbook \in Workbooks
  /\ XlsxInit
  /\ CallInit
  /\ PeerInit
  /\ buffer = NoBuffer
  /\ fileName = <<>>
  /\ mimeType = "none"
  /\ extension = "none"

\* generateCorrectedXlsx up to the loop over the cells: the change map is
\* built and the workbook is read
XlsxCall ==
  /\ stage = "xcall"
  /\ changeMap' = BuildChangeMap(changes, 1, <<>>)
  /\ worksheet' = Sheet(workbook)
  /\ cellAddress' = 1
  /\ rewritten' = {}
  /\ stage' = "cells"
  /\ UNCHANGED <<engineVars, xml, argOriginalText, argCorrectedText, changes,
                 ci, correctedXml, outXml, workbook, outWorkbook, callVars, peerVars>>

\* one iteration of Object.keys(worksheet).forEach
XlsxCell ==
  /\ stage = "cells"
  /\ cellAddress <= Len(worksheet)
  /\ LET key  == worksheet[cellAddress].key
         cell == worksheet[cellAddress].cell
         sub  == SubstituteFrom(changeMap, 1, cell.v, FALSE)
     IN  IF IsMetadataKey(key) \/ ~IsStringCell(cell)
         THEN /\ cellAddress' = cellAddress + 1
              /\ UNCHANGED <<worksheet, rewritten, stage>>
         ELSE IF sub.threw
         THEN /\ stage' = "failed"
              /\ UNCHANGED <<worksheet, rewritten, cellAddress>>
         ELSE /\ cellAddress' = cellAddress + 1
              /\ stage' = "cells"
              /\ IF sub.hasChanged
                 THEN /\ worksheet' =
                           [worksheet EXCEPT ![cellAddress].cell.v = sub.cellValue,
                                             ![cellAddress].cell.w = sub.cellValue]
                      /\ rewritten' = rewritten \cup {cellAddress}
                 ELSE UNCHANGED <<worksheet, rewritten>>
  /\ UNCHANGED <<engineVars, xml, argOriginalText, argCorrectedText, changes,
                 ci, correctedXml, outXml, workbook, changeMap, outWorkbook,
                 callVars, peerVars>>

\* the cell objects of a sheet, without the "!" entries
CellsOf(ws) ==
  LET RECURSIVE Pick(_)
      Pick(k) == IF k > Len(ws) THEN <<>>
                 ELSE (IF IsMetadataKey(ws[k].key) THEN <<>> ELSE <<ws[k].cell>>)
                      \o Pick(k + 1)
  IN  Pick(1)

\* XLSX.write(workbook, ...): the package written holds the cells as patched
XlsxWrite ==
  /\ stage = "cells"
  /\ cellAddress > Len(worksheet)
  /\ outWorkbook' = CellsOf(worksheet)
  /\ stage' = "written"
  /\ UNCHANGED <<engineVars, xml, argOriginalText, argCorrectedText, changes,
                 ci, correctedXml, outXml, workbook, worksheet, changeMap,
                 cellAddress, rewritten, callVars, peerVars>>

XlsxNext ==
  \/ XlsxCall
  \/ XlsxCell
  \/ XlsxWrite

XlsxSpec == XlsxCallInit /\ [][XlsxNext]_vars

(***************************************************************************)
(* DocumentParser.parseXlsx on a package with one sheet of one row, and    *)
(* the spreadsheet pipeline: extract, proofread, regenerate.               *)
(***************************************************************************)
\* the separators the parser joins with: '\\t' and '\\n' in the source are a
\* backslash followed by a letter
TabMark == <<"\\", "t">>
NewlineMark == <<"\\", "n">>

\* the value parseWorksheet takes for a cell: the shared string, trimmed by
\* parseSharedStrings, for a string cell, the content of <v> for any other
CellText(cell) == IF cell.t = "s" THEN Trim(cell.v) ELSE cell.v

\* values.join('\\t') over the values that are not empty
RECURSIVE JoinValues(_, _, _)
JoinValues(cells, k, first) ==
  IF k > Len(cells) THEN <<>>
  ELSE IF CellText(cells[k]) = <<>> THEN JoinValues(cells, k + 1, first)
  ELSE (IF first THEN <<>> ELSE TabMark) \o CellText(cells[k])
       \o JoinValues(cells, k + 1, FALSE)

\* parseWorksheet for the row
parseWorksheet(cells) ==
  IF JoinValues(cells, 1, TRUE) = <<>> THEN <<>>
  ELSE JoinValues(cells, 1, TRUE) \o NewlineMark

\* parseXlsx: the text of the sheet, two newline marks, trimmed
parseXlsx(cells) == Trim(parseWorksheet(cells) \o NewlineMark \o NewlineMark)

\* the rules of the tables spreadsheets are corrected with
XlsxRules ==
  { Rule(<< <<"a">> >>, <<"b">>),
    Rule(<< <<"b">> >>, <<"c">>),
    Rule(<< <<"a">> >>, <<"a", "a">>),
    Rule(<< <<"1">> >>, <<"2">>),
    Rule(<< <<".">> >>, <<"a">>) }

XlsxTables == UNION {[1..k -> XlsxRules] : k \in 0..MaxRules}

XlsxPipelineInit ==
  /\ source = "ok"
  /\ table \in XlsxTables
  /\ EngineInit
  /\ xml = <<>>
  /\ stage = "xstart"
  /\ DocInit
  /\ workbook \in Workbooks
  /\ XlsxInit
  /\ CallInit
  /\ PeerInit
  /\ buffer = NoBuffer
  /\ fileName = <<>>
  /\ mimeType = "none"
  /\ extension = "none"

\* parseXlsx, then proofread on the extracted text
ParseXlsxAndProofread ==
  /\ pc = "idle"
  /\ stage = "xstart"
  /\ Begin(parseXlsx(workbook))
  /\ stage' = "xparsed"
  /\ UNCHANGED <<xml, argOriginalText, argCorrectedText, changes, ci,
                 correctedXml, outXml, workbook>>

\* generateCorrectedXlsx is called with the texts and changes of the
\* proofread result
XlsxRequest ==
  /\ pc = "done"
  /\ stage = "xparsed"
  /\ argOriginalText' = result.originalText
  /\ argCorrectedText' = result.correctedText
  /\ changes' = result.changes
  /\ stage' = "xcall"
  /\ UNCHANGED <<engineVars, xml, ci, correctedXml, outXml, xlsxVars, callVars, peerVars>>

XlsxPipelineNext ==
  \/ Construct
  \/ ParseXlsxAndProofread
  \/ ProofreadPair
  \/ ProofreadNextRule
  \/ ProofreadReturn
  \/ XlsxRequest
  \/ XlsxCall
  \/ XlsxCell
  \/ XlsxWrite

XlsxPipelineSpec == XlsxPipelineInit /\ [][XlsxPipelineNext]_vars

(***************************************************************************)
(* DocumentParser.parseBuffer                                              *)
(***************************************************************************)
\* 10 * 1024 * 1024
MaxFileSize == 10 * 1024 * 1024

DocxMime == "application/vnd.openxmlformats-officedocument.wordprocessingml.document"
XlsxMime == "application/vnd.openxmlformats-officedocument.spreadsheetml.sheet"
GenericMime == "application/octet-stream"

MimeTypes == {DocxMime, XlsxMime, "text/plain", "text/csv", GenericMime,
              "application/pdf"}

\* file names: the extensions the parser knows, in lower and upper case, an
\* unknown one, a name without a dot and a name that ends with a dot
FileNames ==
  { <<"a", ".", "d", "o", "c", "x">>,
    <<"a", ".", "x", "l", "s", "x">>,
    <<"a", ".", "t", "x", "t">>,
    <<"a", ".", "T", "X", "T">>,
    <<"a", ".", "c", "s", "v">>,
    <<"a", ".", "p", "d", "f">>,
    <<"t", "x", "t">>,
    <<"a", ".">> }

\* toLowerCase on the letters the file names are made of
LowerCase(ch) ==
  CASE ch = "T" -> "t"
    [] ch = "X" -> "x"
    [] OTHER    -> ch

toLowerCase(str) == [k \in 1..Len(str) |-> LowerCase(str[k])]

\* split('.').pop(): what follows the last dot, the whole string without one
RECURSIVE LastSegment(_, _)
LastSegment(str, k) ==
  IF k = 0 THEN str
  ELSE IF str[k] = "." THEN SubSeq(str, k + 1, Len(str))
  ELSE LastSegment(str, k - 1)

\* fileName.toLowerCase().split('.').pop() || ''
ExtensionOf(name) == LastSegment(toLowerCase(name), Len(name))

\* the size check with the limit itself rejected
TooLargeFrom(fileSize) == fileSize >= MaxFileSize

\* if (fileSize > 10 * 1024 * 1024)
TooLarge(fileSize) == fileSize > MaxFileSize

\* the if chain with the text parser as its last branch
StrategyTextLast(mime, ext) ==
  LET isDocx == mime = DocxMime \/ (mime = GenericMime /\ ext = <<"d", "o", "c", "x">>)
      isXlsx == mime = XlsxMime \/ (mime = GenericMime /\ ext = <<"x", "l", "s", "x">>)
  IN  IF isDocx THEN "pdocx"
      ELSE IF isXlsx THEN "pxlsx"
      ELSE "ptext"

\* the branch of the if chain over isDocx, isXlsx, isText and isCsv
Strategy(mime, ext) ==
  LET isDocx == mime = DocxMime \/ (mime = GenericMime /\ ext = <<"d", "o", "c", "x">>)
      isXlsx == mime = XlsxMime \/ (mime = GenericMime /\ ext = <<"x", "l", "s", "x">>)
      isText == mime = "text/plain" \/ ext = <<"t", "x", "t">>
      isCsv  == mime = "text/csv" \/ ext = <<"c", "s", "v">>
  IN  IF isDocx THEN "pdocx"
      ELSE IF isXlsx THEN "pxlsx"
      ELSE IF isText \/ isCsv THEN "ptext"
      ELSE "punsupported"

Failure(err) == [returned |-> TRUE, success |-> FALSE, error |-> err,
                 text |-> <<>>]
Success(text) == [returned |-> TRUE, success |-> TRUE, error |-> "none",
                  text |-> text]

\* buffers: what the bytes are (a word-processing package, a spreadsheet
\* package, plain text, or no buffer at all) and how many there are
BufferLengths == {1, MaxFileSize - 1, MaxFileSize, MaxFileSize + 1,
                  11 * 1024 * 1024}

Buffers ==
  {[length |-> n, holds |-> h, chars |-> IF h = "text" THEN <<"a", "b">> ELSE <<>>] :
     n \in BufferLengths, h \in {"docx", "xlsx", "text"}}
  \cup {[length |-> 0, holds |-> "undefined", chars |-> <<>>]}

\* body parts and sheets of the packages handed to the parser
ParseDocs == {<<>>, RunXml(<<"a">>), RunXml(<<"a">>) \o RunXml(<<"b">>)}
ParseWorkbooks == {<<>>, <<Cell("s", <<"a">>, <<"a">>)>>,
                   <<Cell("s", <<"a">>, <<"a">>), Cell("n", <<"1">>, <<"1">>)>>}

ParseInit ==
  /\ source = "ok"
  /\ table = <<>>
  /\ EngineInit
  /\ buffer \in Buffers
  /\ xml \in (IF buffer.holds = "docx" THEN ParseDocs ELSE {<<>>})
  /\ workbook \in (IF buffer.holds = "xlsx" THEN ParseWorkbooks ELSE {<<>>})
  /\ fileName \in FileNames
  /\ mimeType \in MimeTypes
  /\ extension = "none"
  /\ stage = "pcall"
  /\ DocInit
  /\ XlsxInit
  /\ CallInit
  /\ PeerInit

\* parseBuffer up to the if chain: buffer.length is read before the try
\* block, the size is checked, the extension and the four flags are computed
ParseCheck ==
  /\ stage = "pcall"
  /\ IF buffer.holds = "undefined"
     THEN stage' = "thrown" /\ UNCHANGED parseResult
     ELSE IF TooLarge(buffer.length)
     THEN stage' = "preturned" /\ parseResult' = Failure("sizeLimit")
     ELSE stage' = Strategy(mimeType, ExtensionOf(fileName)) /\ UNCHANGED parseResult
  /\ UNCHANGED <<engineVars, xml, argOriginalText, argCorrectedText, changes,
                 ci, correctedXml, outXml, xlsxVars, buffer, fileName, mimeType,
                 opened, extension, peerVars>>

\* parseDocx: the package is opened; bytes that are no package, or a package
\* without word/document.xml, make it throw, which parseBuffer catches
ParseDocx ==
  /\ stage = "pdocx"
  /\ opened' = TRUE
  /\ parseResult' = IF buffer.holds = "text" THEN Failure("docx")
                    ELSE IF buffer.holds = "xlsx" \/ BodyPartMissing(xml)
                    THEN Failure("docx")
                    ELSE Success(extractTextWithTables(xml))
  /\ stage' = "preturned"
  /\ UNCHANGED <<engineVars, xml, argOriginalText, argCorrectedText, changes,
                 ci, correctedXml, outXml, xlsxVars, buffer, fileName, mimeType,
                 extension, peerVars>>

\* parseXlsx: the package is opened; a package without sheet parts gives
\* the empty text
ParseXlsx ==
  /\ stage = "pxlsx"
  /\ opened' = TRUE
  /\ parseResult' = IF buffer.holds = "text" THEN Failure("xlsx")
                    ELSE IF buffer.holds = "docx" THEN Success(<<>>)
                    ELSE Success(parseXlsx(workbook))
  /\ stage' = "preturned"
  /\ UNCHANGED <<engineVars, xml, argOriginalText, argCorrectedText, changes,
                 ci, correctedXml, outXml, xlsxVars, buffer, fileName, mimeType,
                 extension, peerVars>>

\* parseText: buffer.toString('utf8')
ParseText ==
  /\ stage = "ptext"
  /\ opened' = TRUE
  /\ parseResult' = Success(buffer.chars)
  /\ stage' = "preturned"
  /\ UNCHANGED <<engineVars, xml, argOriginalText, argCorrectedText, changes,
                 ci, correctedXml, outXml, xlsxVars, buffer, fileName, mimeType,
                 extension, peerVars>>

\* the else branch: the format is not supported
ParseUnsupported ==
  /\ stage = "punsupported"
  /\ parseResult' = Failure("unsupported")
  /\ stage' = "preturned"
  /\ UNCHANGED <<engineVars, xml, argOriginalText, argCorrectedText, changes,
                 ci, correctedXml, outXml, xlsxVars, buffer, fileName, mimeType,
                 opened, extension, peerVars>>

ParseNext ==
  \/ ParseCheck
  \/ ParseDocx
  \/ ParseXlsx
  \/ ParseText
  \/ ParseUnsupported

ParseSpec == ParseInit /\ [][ParseNext]_vars

\* originalBuffer: the package of the kind the extension names, or no buffer
NoPackage == [length |-> 0, holds |-> "undefined", chars |-> <<>>]
Package(ext) == [length |-> 1, holds |-> ext, chars |-> <<>>]

(***************************************************************************)
(* DocumentParser.parseXlsx on the parts of a spreadsheet package as the   *)
(* parser reads them: the <si> elements of xl/sharedStrings.xml and, for   *)
(* each sheet part, its <c> elements in document order, each with the      *)
(* column letters and row digits of its r attribute, its t attribute and   *)
(* the content of its <v>.                                                 *)
(***************************************************************************)
XmlCell(col, row, t, v) == [col |-> col, row |-> row, t |-> t, v |-> v]

Digits == <<"0", "1", "2", "3", "4", "5", "6", "7", "8", "9">>

DigitValue(ch) == (CHOOSE d \in 1..10 : Digits[d] = ch) - 1

IsDigit(ch) == \E d \in 1..10 : Digits[d] = ch

\* parseInt(str, 10) of a string without sign or leading blanks: the number
\* its leading digits spell, -1 (for NaN) if it starts with none
RECURSIVE ParseIntFrom(_, _, _)
ParseIntFrom(str, k, acc) ==
  IF k > Len(str) \/ ~IsDigit(str[k]) THEN (IF k = 1 THEN -1 ELSE acc)
  ELSE ParseIntFrom(str, k + 1, acc * 10 + DigitValue(str[k]))

parseInt(str) == ParseIntFrom(str, 1, 0)

\* parseSharedStrings: the text of each <si>, trimmed
parseSharedStrings(sis) == [k \in 1..Len(sis) |-> Trim(sis[k])]

\* the value taken for a cell: sharedStrings[index] || '' for type s, the
\* content of <v> for any other type
CellValue(cell, sharedStrings) ==
  IF cell.t = "s"
  THEN LET index == parseInt(cell.v) IN
       IF index \in 0..(Len(sharedStrings) - 1) THEN sharedStrings[index + 1]
       ELSE <<>>
  ELSE cell.v

\* order of the code units of the column letters
LetterRank(ch) == CASE ch = "A" -> 1 [] ch = "B" -> 2 [] OTHER -> 3

\* a < b as strings are compared: code unit by code unit, a prefix first
RECURSIVE StringBefore(_, _)
StringBefore(a, b) ==
  IF a = <<>> THEN b # <<>>
  ELSE IF b = <<>> THEN FALSE
  ELSE IF a[1] # b[1] THEN LetterRank(a[1]) < LetterRank(b[1])
  ELSE StringBefore(Tail(a), Tail(b))

\* the order of the columns in a sheet: shorter names first
ColumnBeforeInSheet(a, b) ==
  Len(a) < Len(b) \/ (Len(a) = Len(b) /\ StringBefore(a, b))

\* Object.keys(row).sort(): the default sort, which compares strings
ColumnBefore(a, b) == StringBefore(a, b)

RECURSIVE SortedCols(_)
SortedCols(cols) ==
  IF cols = {} THEN <<>>
  ELSE LET first == CHOOSE c \in cols : \A d \in cols \ {c} : ColumnBefore(c, d)
       IN  <<first>> \o SortedCols(cols \ {first})

\* Object.keys(rows).map(n => parseInt(n, 10)).sort((a, b) => a - b)
RECURSIVE SortedRowNums(_)
SortedRowNums(nums) ==
  IF nums = {} THEN <<>>
  ELSE LET first == CHOOSE n \in nums : \A m \in nums : n <= m
       IN  <<first>> \o SortedRowNums(nums \ {first})

\* rows[rowNum][col] after cells.forEach: the value of the last cell with
\* that reference
ValueAt(cells, sharedStrings, rowNum, col) ==
  LET ks == {k \in 1..Len(cells) :
               parseInt(cells[k].row) = rowNum /\ cells[k].col = col}
      last == CHOOSE k \in ks : \A j \in ks : j <= k
  IN  CellValue(cells[last], sharedStrings)

\* sortedCols.map(col => row[col]).filter(val => val), each value with its
\* column
RowEntries(cells, sharedStrings, rowNum) ==
  LET cols == SortedCols({cells[k].col :
                k \in {j \in 1..Len(cells) : parseInt(cells[j].row) = rowNum}})
      RECURSIVE Keep(_)
      Keep(i) ==
        IF i > Len(cols) THEN <<>>
        ELSE (IF ValueAt(cells, sharedStrings, rowNum, cols[i]) # <<>>
              THEN <<[col |-> cols[i],
                      value |-> ValueAt(cells, sharedStrings, rowNum, cols[i])]>>
              ELSE <<>>) \o Keep(i + 1)
  IN  Keep(1)

\* the rows that give a line, in the order of the lines
SheetRows(cells, sharedStrings) ==
  LET nums == SortedRowNums({parseInt(cells[k].row) : k \in 1..Len(cells)})
      RECURSIVE Keep(_)
      Keep(i) ==
        IF i > Len(nums) THEN <<>>
        ELSE (IF RowEntries(cells, sharedStrings, nums[i]) # <<>>
              THEN <<[rowNum |-> nums[i],
                      entries |-> RowEntries(cells, sharedStrings, nums[i])]>>
              ELSE <<>>) \o Keep(i + 1)
  IN  Keep(1)

\* values.join(sep)
RECURSIVE JoinEntries(_, _, _)
JoinEntries(entries, k, sep) ==
  IF k > Len(entries) THEN <<>>
  ELSE (IF k = 1 THEN <<>> ELSE sep) \o entries[k].value
       \o JoinEntries(entries, k + 1, sep)

\* parseWorksheet: result += values.join('\\t') + '\\n' for each row
parseWorksheetCells(cells, sharedStrings) ==
  LET rs == SheetRows(cells, sharedStrings) IN
  Flatten([i \in 1..Len(rs) |->
             JoinEntries(rs[i].entries, 1, TabMark) \o NewlineMark])

\* parseXlsx: allText += sheetText + '\\n\\n' for each sheet part, then
\* allText.trim()
parseXlsxParts(parts) ==
  Trim(Flatten([k \in 1..Len(parts.sheets) |->
                  parseWorksheetCells(parts.sheets[k],
                                      parseSharedStrings(parts.sharedStrings))
                  \o NewlineMark \o NewlineMark]))

\* most cells in a sheet part
MaxSheetCells == 2

\* cells: columns A, B and AA, rows 2 and 10, shared strings by index
\* (one of them blank, one index out of range) and a number
XmlCells ==
  {XmlCell(col, row, tv[1], tv[2]) :
     col \in {<<"A">>, <<"B">>, <<"A", "A">>},
     row \in {<<"2">>, <<"1", "0">>},
     tv \in {<<"s", <<"0">>>>, <<"s", <<"1">>>>, <<"s", <<"5">>>>,
             <<"n", <<"7">>>>}}

SheetParts == UNION {[1..n -> XmlCells] : n \in 0..MaxSheetCells}

\* a second sheet part
OtherSheetParts == {<<>>, <<XmlCell(<<"A">>, <<"2">>, "n", <<"7">>)>>}

SharedStringItems == <<<<"a", " ">>, <<" ">>>>

PackageParts ==
  {[sharedStrings |-> SharedStringItems, sheets |-> <<sheet>>] :
     sheet \in SheetParts}
  \cup {[sharedStrings |-> SharedStringItems, sheets |-> <<sheet, other>>] :
          sheet \in SheetParts, other \in OtherSheetParts}

SheetInit ==
  /\ source = "ok"
  /\ table = <<>>
  /\ EngineInit
  /\ buffer = Package("xlsx")
  /\ xml = <<>>
  /\ workbook \in PackageParts
  /\ fileName = <<"a", ".", "x", "l", "s", "x">>
  /\ mimeType = XlsxMime
  /\ extension = "none"
  /\ stage = "pxlsx"
  /\ DocInit
  /\ XlsxInit
  /\ CallInit
  /\ PeerInit

\* parseXlsx on the parts of the package
ParseSheets ==
  /\ stage = "pxlsx"
  /\ opened' = TRUE
  /\ parseResult' = Success(parseXlsxParts(workbook))
  /\ stage' = "preturned"
  /\ UNCHANGED <<engineVars, xml, argOriginalText, argCorrectedText, changes,
                 ci, correctedXml, outXml, xlsxVars, buffer, fileName, mimeType,
                 extension, peerVars>>

SheetSpec == SheetInit /\ [][ParseSheets]_vars

(***************************************************************************)
(* DocumentFormatter.generateCorrectedFile (the later of the two methods   *)
(* of that name in the class, which is the one in effect) and              *)
(* generateSimpleDocx.                                                     *)
(***************************************************************************)
\* text.split(sep) from index from on, sep not empty
RECURSIVE Split(_, _, _)
Split(str, sep, from) ==
  LET idx == IndexOf(str, sep, from) IN
  IF idx = -1 THEN <<SubSeq(str, from + 1, Len(str))>>
  ELSE <<SubSeq(str, from + 1, idx)>> \o Split(str, sep, idx + Len(sep))

\* text.split('\\n\\n').filter(p => p.trim()).map(... paragraph.trim() ...)
Paragraphs(text) ==
  LET parts == Split(text, NewlineMark \o NewlineMark, 0)
      RECURSIVE Keep(_)
      Keep(k) == IF k > Len(parts) THEN <<>>
                 ELSE (IF Trim(parts[k]) # <<>> THEN <<Trim(parts[k])>> ELSE <<>>)
                      \o Keep(k + 1)
  IN  Keep(1)

\* the body part of the document built from the paragraphs, reduced to one
\* text run per paragraph
generateSimpleDocx(text) ==
  Flatten([k \in 1..Len(Paragraphs(text)) |-> RunXml(Paragraphs(text)[k])])

FileExtensions == {"docx", "xlsx", "txt"}

FileDocs == {<<>>, RunXml(<<"a">>)}
FileWorkbooks == {<<>>, <<Cell("s", <<"a">>, <<"a">>)>>}
FileLedgers == {<<>>, <<Entry(<<"a">>, <<"b">>)>>, <<Entry(<<"(">>, <<"a">>)>>}
FileCorrecteds == {<<"b">>, <<"b">> \o NewlineMark \o NewlineMark \o <<"b">>,
                   <<"b", "\n", "\n", "b">>}

FileInit ==
  /\ source = "ok"
  /\ table = <<>>
  /\ EngineInit
  /\ extension \in FileExtensions
  /\ buffer \in {NoPackage, Package(extension)}
  /\ xml \in (IF extension = "docx" /\ buffer # NoPackage THEN FileDocs ELSE {<<>>})
  /\ workbook \in (IF extension = "xlsx" /\ buffer # NoPackage
                   THEN FileWorkbooks ELSE {<<>>})
  /\ argOriginalText \in {<<>>, <<"a">>}
  /\ argCorrectedText \in FileCorrecteds
  /\ changes \in FileLedgers
  /\ stage = "fcall"
  /\ ci = 1
  /\ correctedXml = <<>>
  /\ outXml = <<>>
  /\ XlsxInit
  /\ CallInit
  /\ PeerInit
  /\ fileName = <<>>
  /\ mimeType = "none"

\* generateCorrectedFile: the branch on the extension; without a buffer the
\* generator of a package fails where it opens it (zip.loadAsync, XLSX.read)
FileCall ==
  /\ stage = "fcall"
  /\ stage' = IF extension \in {"xlsx", "docx"} /\ buffer = NoPackage THEN "failed"
              ELSE IF extension = "xlsx" THEN "xcall"
              ELSE IF extension = "docx" THEN "call"
              ELSE "simple"
  /\ UNCHANGED <<engineVars, xml, argOriginalText, argCorrectedText, changes,
                 ci, correctedXml, outXml, xlsxVars, callVars, peerVars>>

\* generateSimpleDocx(correctedText)
SimpleDocx ==
  /\ stage = "simple"
  /\ outXml' = generateSimpleDocx(argCorrectedText)
  /\ stage' = "serialized"
  /\ UNCHANGED <<engineVars, xml, argOriginalText, argCorrectedText, changes,
                 ci, correctedXml, xlsxVars, callVars, peerVars>>

\* the failure handed back as a value instead of being thrown
FileFailureReturned ==
  /\ stage = "failed"
  /\ extension \in FileExtensions
  /\ stage' = "freturned"
  /\ UNCHANGED <<engineVars, xml, argOriginalText, argCorrectedText, changes,
                 ci, correctedXml, outXml, xlsxVars, callVars, peerVars>>

\* the catch of generateCorrectedFile: the error of the generator that
\* failed is wrapped in a new Error and thrown
FileThrow ==
  /\ stage = "failed"
  /\ extension \in FileExtensions
  /\ stage' = "thrown"
  /\ UNCHANGED <<engineVars, xml, argOriginalText, argCorrectedText, changes,
                 ci, correctedXml, outXml, xlsxVars, callVars, peerVars>>

(***************************************************************************)
(* The three public entry points, each called on its own: parseBuffer,     *)
(* proofread on a constructed engine, generateCorrectedFile.               *)
(***************************************************************************)
BoundaryInit == ParseInit \/ Init \/ FileInit

BoundaryNext ==
  \/ ParseCheck
  \/ ParseDocx
  \/ ParseXlsx
  \/ ParseText
  \/ ParseUnsupported
  \/ Construct
  \/ ProofreadBegin
  \/ ProofreadPair
  \/ ProofreadNextRule
  \/ ProofreadReturn
  \/ FileCall
  \/ DocxCall
  \/ LedgerChange
  \/ LedgerDone
  \/ ShortText
  \/ Serialize
  \/ XlsxCall
  \/ XlsxCell
  \/ XlsxWrite
  \/ SimpleDocx
  \/ FileThrow

BoundarySpec == BoundaryInit /\ [][BoundaryNext]_vars

(***************************************************************************)
(* generateCorrectedDocx called with pre-correction texts around the       *)
(* length limit of the whole-text step.                                    *)
(***************************************************************************)
\* a text of n characters, the first of which ledger entries apply to
LongText(n) == [k \in 1..n |-> IF k = 1 THEN "a" ELSE "c"]

LimitLengths == {ShortTextLimit - 1, ShortTextLimit, ShortTextLimit + 1}

LimitTexts == {LongText(n) : n \in LimitLengths} \cup {<<>>, <<"a">>}

\* body parts of one run
LimitDocs == {RunXml(t) : t \in LimitTexts}

LimitLedgers == {<<>>, <<Entry(<<"a">>, <<"b">>)>>, <<Entry(<<"(">>, <<"a">>)>>}

LimitInit ==
  /\ source = "ok"
  /\ table = <<>>
  /\ EngineInit
  /\ xml \in LimitDocs
  /\ stage = "call"
  /\ argOriginalText \in LimitTexts \cup {<<"(">>}
  /\ argCorrectedText \in {<<>>, <<"b">>}
  /\ changes \in LimitLedgers
  /\ ci = 1
  /\ correctedXml = <<>>
  /\ outXml = <<>>
  /\ XlsxInit
  /\ CallInit
  /\ PeerInit
  /\ NoFile

LimitSpec == LimitInit /\ [][PatchNext]_vars

(***************************************************************************)
(* generateCorrectedFile called on its own.                                *)
(***************************************************************************)
FileNext ==
  \/ FileCall
  \/ DocxCall
  \/ LedgerChange
  \/ LedgerDone
  \/ ShortText
  \/ Serialize
  \/ XlsxCall
  \/ XlsxCell
  \/ XlsxWrite
  \/ SimpleDocx
  \/ FileThrow

FileSpec == FileInit /\ [][FileNext]_vars

(***************************************************************************)
(* The ProofreadingEngine that records one Change for each (rule, form)    *)
(* pair.  Its constructor, loadRules and escapeRegExp are those of the     *)
(* engine above; its proofread differs in the body of the inner loop.      *)
(***************************************************************************)
\* the body of the inner loop with a pattern that is not global: replace
\* changes the first match only
PairStepSingleFirst(working, chs, rule, form) ==
  IF form = rule.correct
  THEN [threw |-> FALSE, text |-> working, changes |-> chs]
  ELSE IF ~RegExpCompiles(escapeRegExp(form))
  THEN [threw |-> TRUE, text |-> working, changes |-> chs]
  ELSE LET p == escapeRegExp(form)
           idx == FirstMatch(p, working, 0)
       IN  IF idx # -1
           THEN [threw |-> FALSE,
                 text |-> ReplaceFirstMatch(p, working, rule.correct),
                 changes |-> Append(chs,
                   MakeChange(form, rule, [start |-> idx, end |-> idx + Len(form)]))]
           ELSE [threw |-> FALSE, text |-> working, changes |-> chs]

\* the body of the inner for loop: the while loop around regex.exec is left
\* by break in its first iteration, after one Change was pushed and every
\* match was replaced
PairStepSingle(working, chs, rule, form) ==
  IF form = rule.correct
  THEN [threw |-> FALSE, text |-> working, changes |-> chs]
  ELSE IF ~RegExpCompiles(escapeRegExp(form))
  THEN [threw |-> TRUE, text |-> working, changes |-> chs]
  ELSE LET p == escapeRegExp(form)
           idx == FirstMatch(p, working, 0)
       IN  IF idx # -1
           THEN [threw |-> FALSE,
                 text |-> ReplaceAll(p, working, rule.correct),
                 changes |-> Append(chs,
                   MakeChange(form, rule, [start |-> idx, end |-> idx + Len(form)]))]
           ELSE [threw |-> FALSE, text |-> working, changes |-> chs]

\* rules the two engines are run on: plain forms, a correct form that
\* contains its incorrect form, an empty incorrect form, a form equal to
\* the correct form, forms made of metacharacters
TwoEngineRules ==
  { Rule(<< <<"a">> >>, <<"b">>),
    Rule(<< <<"a">> >>, <<"a", "a">>),
    Rule(<< <<>> >>, <<"a">>),
    Rule(<< <<>>, <<"a">> >>, <<"b">>),
    Rule(<< <<"b">>, <<"b", "a">> >>, <<"b">>),
    Rule(<< <<".">> >>, <<"a">>),
    Rule(<< <<"(">> >>, <<"a">>) }

\* rule tables; a Change refers to its rule, so a table holds no rule twice
TwoEngineTables ==
  {t \in UNION {[1..k -> TwoEngineRules] : k \in 0..MaxRules} :
     \A i, j \in 1..Len(t) : i # j => t[i] # t[j]}

TwoEngineInit ==
  /\ source \in {"ok", "noRules"}
  /\ table \in (IF source = "ok" THEN TwoEngineTables ELSE {<<>>})
  /\ EngineInit
  /\ xml = <<>>
  /\ stage = "none"
  /\ DocInit
  /\ XlsxInit
  /\ CallInit
  /\ PeerInit
  /\ NoFile

\* proofread of the single-record engine, called with the text the other
\* engine was called with, once that call is over
SingleBegin ==
  /\ pc \in {"done", "threw"}
  /\ pass = 1
  /\ single.pc = "idle"
  /\ single' = [single EXCEPT !.pc = IF rulesDefined THEN "loop" ELSE "threw",
                              !.correctedText = originalText]
  /\ UNCHANGED <<engineVars, docVars, xlsxVars, callVars, calls>>

\* one iteration of the inner for loop
SinglePair ==
  /\ single.pc = "loop"
  /\ single.ri <= Len(rules)
  /\ single.fi <= Len(rules[single.ri].incorrect)
  /\ LET r == PairStepSingle(single.correctedText, single.allChanges,
                             rules[single.ri], rules[single.ri].incorrect[single.fi])
     IN  single' = [single EXCEPT !.correctedText = r.text,
                                  !.allChanges = r.changes,
                                  !.pc = IF r.threw THEN "threw" ELSE "loop",
                                  !.fi = IF r.threw THEN @ ELSE @ + 1]
  /\ UNCHANGED <<engineVars, docVars, xlsxVars, callVars, calls>>

\* the inner for loop ends, the outer one moves to the next rule
SingleNextRule ==
  /\ single.pc = "loop"
  /\ single.ri <= Len(rules)
  /\ single.fi > Len(rules[single.ri].incorrect)
  /\ single' = [single EXCEPT !.ri = @ + 1, !.fi = 1]
  /\ UNCHANGED <<engineVars, docVars, xlsxVars, callVars, calls>>

\* after the loops: sort the changes and return the result
SingleReturn ==
  /\ single.pc = "loop"
  /\ single.ri > Len(rules)
  /\ LET sorted == SortChanges(single.allChanges)
     IN  single' = [single EXCEPT
                     !.allChanges = sorted,
                     !.result = [originalText |-> originalText,
                                 correctedText |-> single.correctedText,
                                 changes |-> sorted,
                                 totalChanges |-> Len(sorted)],
                     !.pc = "done"]
  /\ UNCHANGED <<engineVars, docVars, xlsxVars, callVars, calls>>

TwoEngineNext ==
  \/ Construct
  \/ ProofreadBegin
  \/ ProofreadPair
  \/ ProofreadNextRule
  \/ ProofreadReturn
  \/ SingleBegin
  \/ SinglePair
  \/ SingleNextRule
  \/ SingleReturn

TwoEngineSpec == TwoEngineInit /\ [][TwoEngineNext]_vars

\* the conditions under which the steps of the loops can be taken
PairEnabled == pc = "loop" /\ ri <= Len(rules) /\ fi <= Len(rules[ri].incorrect)
ReturnEnabled == pc = "loop" /\ ri > Len(rules)
SinglePairEnabled ==
  /\ single.pc = "loop"
  /\ single.ri <= Len(rules)
  /\ single.fi <= Len(rules[single.ri].incorrect)
SingleReturnEnabled == single.pc = "loop" /\ single.ri > Len(rules)

\* proofread is synchronous code: once called it runs on, so a step of its
\* loops that can be taken is taken.  Weak fairness of each step; for the
\* steps that evaluate a pattern it is written out, with the condition
\* above in the place of ENABLED
TwoEngineFairSpec ==
  /\ TwoEngineSpec
  /\ WF_vars(ProofreadNextRule)
  /\ WF_vars(SingleNextRule)
  /\ ([]<>(~PairEnabled) \/ []<><<ProofreadPair>>_vars)
  /\ ([]<>(~ReturnEnabled) \/ []<><<ProofreadReturn>>_vars)
  /\ ([]<>(~SinglePairEnabled) \/ []<><<SinglePair>>_vars)
  /\ ([]<>(~SingleReturnEnabled) \/ []<><<SingleReturn>>_vars)

(***************************************************************************)
(* Concurrent requests on the three instances the server creates once.     *)
(* A call of an async method runs up to its next await and then lets a     *)
(* step of any other call run; proofread has no await and runs as one      *)
(* step.                                                                   *)
(***************************************************************************)
\* most calls in progress at a time
MaxCalls == 2

CallIds == 1..MaxCalls

Thrown == [threw |-> TRUE, text |-> <<>>, changes |-> <<>>]

Returned(text, chs) == [threw |-> FALSE, text |-> text, changes |-> chs]

\* proofread: the two for loops from rule r and form f on, the sort and the
\* returned correctedText and changes
RECURSIVE ProofreadLoops(_, _, _, _, _)
ProofreadLoops(rls, r, f, working, chs) ==
  IF r > Len(rls) THEN Returned(working, SortChanges(chs))
  ELSE IF f > Len(rls[r].incorrect) THEN ProofreadLoops(rls, r + 1, 1, working, chs)
  ELSE LET step == PairStep(working, chs, rls[r], rls[r].incorrect[f]) IN
       IF step.threw THEN Thrown
       ELSE ProofreadLoops(rls, r, f + 1, step.text, step.changes)

\* proofread(text) on an engine whose this.rules is rls (or undefined)
proofread(defined, rls, text) ==
  IF defined THEN ProofreadLoops(rls, 1, 1, text, <<>>) ELSE Thrown

\* parseDocx on a body part
parseDocx(x) ==
  IF BodyPartMissing(x) THEN Thrown ELSE Returned(extractTextWithTables(x), <<>>)

\* changes.forEach of applyCorrectionToXml from change k on
RECURSIVE LedgerLoop(_, _, _)
LedgerLoop(x, chs, k) ==
  IF k > Len(chs) THEN Returned(x, <<>>)
  ELSE IF ApplyChangeThrows(x, chs[k]) THEN Thrown
  ELSE LedgerLoop(ApplyChange(x, chs[k]), chs, k + 1)

\* applyCorrectionToXml on a body part
applyCorrection(x, orig, corr, chs) ==
  LET ledgered == LedgerLoop(x, chs, 1) IN
  IF ledgered.threw THEN Thrown
  ELSE IF ~ShortTextGuard(orig, corr) THEN ledgered
  ELSE IF ShortTextThrows(ledgered.text, orig) THEN Thrown
  ELSE Returned(ShortTextStep(ledgered.text, orig, corr), <<>>)

\* generateCorrectedDocx on a body part
generateCorrectedDocx(x, orig, corr, chs) ==
  IF BodyPartMissing(x) THEN Thrown ELSE applyCorrection(x, orig, corr, chs)

\* a call: the method, its arguments, the await it stands at and what it
\* returned
NoCall == [kind |-> "none", at |-> "free", text |-> <<>>, corrected |-> <<>>,
           changes |-> <<>>, body |-> <<>>, result |-> Returned(<<>>, <<>>)]

ConcTexts == {<<"a">>, <<"b", "a">>}

\* body parts: none, and one run
ConcBodies == {<<>>, RunXml(<<"a">>)}

ConcLedgers == {<<>>, <<Entry(<<"a">>, <<"b">>)>>, <<Entry(<<"(">>, <<"a">>)>>}

ConcTables ==
  { <<Rule(<< <<"b">> >>, <<>>), Rule(<< <<"a">> >>, <<"a", "a">>)>>,
    <<Rule(<< <<"(">> >>, <<"a">>)>> }

\* the locals of every call in one place: those of the first
SlotOfInstance(i) == 1

\* where the locals of call i are kept: const and let of the method body,
\* an activation of its own for every call
Slot(i) == i

ConcInit ==
  /\ source \in {"ok", "noRules"}
  /\ table \in (IF source = "ok" THEN ConcTables ELSE {<<>>})
  /\ EngineInit
  /\ xml = <<>>
  /\ stage = "none"
  /\ DocInit
  /\ XlsxInit
  /\ CallInit
  /\ single = SingleIdle
  /\ calls = [call |-> [i \in CallIds |-> NoCall],
              locals |-> [i \in CallIds |-> <<>>]]
  /\ NoFile

ConcUnchanged ==
  UNCHANGED <<engineVars, docVars, xlsxVars, callVars, single>>

\* a request arrives and the route calls a method of an instance
Invoke(i) ==
  /\ pc = "idle"
  /\ calls.call[i].at = "free"
  /\ \E kind \in {"extract", "proofread", "patch"} :
     \E text \in ConcTexts, body \in ConcBodies, chs \in ConcLedgers :
       /\ kind = "extract" => text = <<"a">> /\ chs = <<>>
       /\ kind = "proofread" => body = <<>> /\ chs = <<>>
       /\ kind = "patch" => text = <<"b", "a">>
       /\ calls' = [calls EXCEPT !.call[i] =
                      [kind |-> kind, at |-> "called",
                       text |-> IF kind = "extract" THEN <<>> ELSE text,
                       corrected |-> IF kind = "patch" THEN <<"b">> ELSE <<>>,
                       changes |-> chs, body |-> body,
                       result |-> Returned(<<>>, <<>>)]]
  /\ ConcUnchanged

\* proofreadingEngine.proofread(text): no await, from call to return
ProofreadCall(i) ==
  /\ calls.call[i].kind = "proofread"
  /\ calls.call[i].at = "called"
  /\ LET res == proofread(rulesDefined, rules, calls.call[i].text) IN
     calls' = [calls EXCEPT !.call[i].result = res,
                            !.call[i].at = IF res.threw THEN "threw"
                                           ELSE "returned"]
  /\ ConcUnchanged

\* parseDocx and generateCorrectedDocx up to the body part: await
\* zip.loadAsync(buffer), await zipContent.file('word/document.xml')
LoadBody(i) ==
  /\ calls.call[i].kind \in {"extract", "patch"}
  /\ calls.call[i].at = "called"
  /\ calls' = [calls EXCEPT !.locals[Slot(i)] = calls.call[i].body,
                            !.call[i].at = "loaded"]
  /\ ConcUnchanged

\* parseDocx from the body part on: the text is extracted, await
\* extractDocxMetadata
ExtractText(i) ==
  /\ calls.call[i].kind = "extract"
  /\ calls.call[i].at = "loaded"
  /\ LET res == parseDocx(calls.locals[Slot(i)]) IN
     calls' = [calls EXCEPT !.locals[Slot(i)] = res.text,
                            !.call[i].at = IF res.threw THEN "threw"
                                           ELSE "extracted"]
  /\ ConcUnchanged

\* parseDocx returns the text
ExtractReturn(i) ==
  /\ calls.call[i].kind = "extract"
  /\ calls.call[i].at = "extracted"
  /\ calls' = [calls EXCEPT
                 !.call[i].result = Returned(calls.locals[Slot(i)], <<>>),
                 !.call[i].at = "returned"]
  /\ ConcUnchanged

\* generateCorrectedDocx from the body part on: applyCorrectionToXml, the
\* part is put back, await zipContent.generateAsync
PatchApply(i) ==
  /\ calls.call[i].kind = "patch"
  /\ calls.call[i].at = "loaded"
  /\ LET res == generateCorrectedDocx(calls.locals[Slot(i)], calls.call[i].text,
                                      calls.call[i].corrected,
                                      calls.call[i].changes) IN
     calls' = [calls EXCEPT !.locals[Slot(i)] = res.text,
                            !.call[i].at = IF res.threw THEN "threw"
                                           ELSE "applied"]
  /\ ConcUnchanged

\* generateCorrectedDocx returns the package
PatchReturn(i) ==
  /\ calls.call[i].kind = "patch"
  /\ calls.call[i].at = "applied"
  /\ calls' = [calls EXCEPT
                 !.call[i].result = Returned(calls.locals[Slot(i)], <<>>),
                 !.call[i].at = "returned"]
  /\ ConcUnchanged

\* the response is sent and the call is over; its record stays until the
\* next call takes its place
Respond(i) ==
  /\ calls.call[i].at \in {"returned", "threw"}
  /\ calls' = [calls EXCEPT !.call[i].at = "free", !.locals[Slot(i)] = <<>>]
  /\ ConcUnchanged

ConcNext ==
  \/ Construct
  \/ \E i \in CallIds : Invoke(i)
  \/ \E i \in CallIds : ProofreadCall(i)
  \/ \E i \in CallIds : LoadBody(i)
  \/ \E i \in CallIds : ExtractText(i)
  \/ \E i \in CallIds : ExtractReturn(i)
  \/ \E i \in CallIds : PatchApply(i)
  \/ \E i \in CallIds : PatchReturn(i)
  \/ \E i \in CallIds : Respond(i)

ConcSpec == ConcInit /\ [][ConcNext]_vars

(***************************************************************************)
(* Literal string operations, the reference the claims speak of.           *)
(***************************************************************************)
\* f occurs in s at 0-based index i, character for character
LitAt(f, s, i) ==
  /\ i + Len(f) <= Len(s)
  /\ \A k \in 1..Len(f) : s[i+k] = f[k]

Contains(s, f) == \E i \in 0..Len(s) : LitAt(f, s, i)

\* the indexes of the non-overlapping occurrences of f in s, left to right
RECURSIVE LitOccurrences(_, _, _)
LitOccurrences(f, s, from) ==
  IF from > Len(s) \/ (from = Len(s) /\ Len(f) > 0) THEN <<>>
  ELSE IF LitAt(f, s, from)
       THEN <<from>> \o LitOccurrences(f, s, from + (IF Len(f) = 0 THEN 1 ELSE Len(f)))
       ELSE LitOccurrences(f, s, from + 1)

\* s with every non-overlapping occurrence of f replaced by r
RECURSIVE LitReplace(_, _, _, _)
LitReplace(f, s, r, from) ==
  IF from >= Len(s) THEN <<>>
  ELSE IF Len(f) > 0 /\ LitAt(f, s, from)
       THEN r \o LitReplace(f, s, r, from + Len(f))
       ELSE <<s[from + 1]>> \o LitReplace(f, s, r, from + 1)

\* the fold of the literal substitutions over the forms of one rule, then
\* over the rules of a table
RECURSIVE LitForms(_, _, _)
LitForms(rule, k, s) ==
  IF k > Len(rule.incorrect) THEN s
  ELSE LitForms(rule, k + 1, LitReplace(rule.incorrect[k], s, rule.correct, 0))

RECURSIVE LitFold(_, _, _)
LitFold(tbl, k, s) ==
  IF k > Len(tbl) THEN s ELSE LitFold(tbl, k + 1, LitForms(tbl[k], 1, s))

AllForms(tbl) == UNION {{tbl[i].incorrect[j] : j \in 1..Len(tbl[i].incorrect)} : i \in 1..Len(tbl)}
AllCorrects(tbl) == {tbl[i].correct : i \in 1..Len(tbl)}

\* a (rule, form) pair is about to be processed
PairPending == pc = "loop" /\ ri <= Len(rules) /\ fi <= Len(rules[ri].incorrect)

(***************************************************************************)
(* C2, as claimed: for a rule table in which no correct form is listed as  *)
(* an incorrect form, proofreading the corrected text again gives          *)
(* totalChanges = 0 and leaves the text unchanged.                         *)
(***************************************************************************)
WellFormed(tbl) == \A c \in AllCorrects(tbl) : c \notin AllForms(tbl)

SecondPassClean ==
  /\ result.totalChanges = 0
  /\ result.correctedText = firstResult.correctedText

\* no form holds a character of the class escapeRegExp is written for, so
\* the engine's pattern for every form matches literally
LiteralTable(tbl) ==
  \A f \in AllForms(tbl) : \A i \in 1..Len(f) : f[i] \notin EscapeClass

PatternHits(f, c) ==
  \/ Contains(c, f)
  \/ /\ RegExpCompiles(escapeRegExp(f))
     /\ FirstMatch(escapeRegExp(f), c, 0) # -1

StrictlyWellFormed(tbl) ==
  /\ \A f \in AllForms(tbl) : Len(f) = 1
  /\ \A f \in AllForms(tbl) : \A c \in AllCorrects(tbl) : ~PatternHits(f, c)
  /\ \A c \in AllCorrects(tbl) : \A i \in 1..Len(c) : c[i] # "$"

C3_LiteralForms ==
  [][PairPending =>
       LET rule == rules[ri]
           form == rule.incorrect[fi]
       IN  /\ pc' # "threw"
           /\ \A k \in (Len(allChanges) + 1)..Len(allChanges') :
                LitAt(form, correctedText, allChanges'[k].start)
           /\ correctedText' \in
                {correctedText, LitReplace(form, correctedText, rule.correct, 0)}]_vars

(***************************************************************************)
(* C4: a text that contains none of the incorrect forms of the table as a  *)
(* substring comes back unchanged, with totalChanges = 0.                  *)
(***************************************************************************)
C4_NoFormIdentity ==
  (/\ pass = 1
   /\ rulesDefined
   /\ pc \in {"done", "threw"}
   /\ \A f \in AllForms(rules) : ~Contains(originalText, f))
  => (/\ pc = "done"
      /\ result.correctedText = originalText
      /\ result.totalChanges = 0)

(***************************************************************************)
(* C5: a processed pair appends one Change per non-overlapping occurrence  *)
(* of the form in the working text, each Change's [start, end) holds       *)
(* change.original in that working text, change.corrected is the rule's    *)
(* correct form, and totalChanges is the length of changes.                *)
(***************************************************************************)
C5_ChangePerOccurrence ==
  /\ [][(PairPending /\ rules[ri].incorrect[fi] # rules[ri].correct /\ pc' = "loop") =>
         LET rule == rules[ri]
             form == rule.incorrect[fi]
             occ  == LitOccurrences(form, correctedText, 0)
         IN  /\ Len(allChanges') = Len(allChanges) + Len(occ)
             /\ \A k \in 1..Len(occ) :
                  LET c == allChanges'[Len(allChanges) + k]
                  IN  /\ c.end <= Len(correctedText)
                      /\ SubSeq(correctedText, c.start + 1, c.end) = c.original
                      /\ c.corrected = rule.correct]_vars
  /\ [](pc = "done" => result.totalChanges = Len(result.changes))

(***************************************************************************)
(* C6: correctedText is the left fold, over the rules in table order and   *)
(* the forms in array order, of the global literal substitution of the     *)
(* form by the correct form, on one working text.                          *)
(***************************************************************************)
C6_LeftFold ==
  (pc = "done" /\ pass = 1) => result.correctedText = LitFold(rules, 1, originalText)

(***************************************************************************)
(* C7: a rule table that cannot be loaded gives an engine with zero rules, *)
(* on which proofread is the identity, and nothing throws.                 *)
(***************************************************************************)
C7_DegradedEngine ==
  source # "ok" =>
    /\ pc # "new" => (rulesDefined /\ Len(rules) = 0)
    /\ pc # "threw"
    /\ pc = "done" => (result.correctedText = originalText /\ result.totalChanges = 0)

(***************************************************************************)
(* Claims about the regeneration of a word-processing package              *)
(***************************************************************************)
InRuns == RunTexts(xml)
OutRuns == RunTexts(outXml)

\* the exact-match check: the run texts of the body part, in document order,
\* are the pre-correction text
ExactMatch == Flatten(InRuns) = argOriginalText

\* the same check after trimming both sides
TrimmedMatch == Trim(Flatten(InRuns)) = Trim(argOriginalText)

(***************************************************************************)
(* C1: for a body part of one run whose content is originalText, patching  *)
(* with the originalText, correctedText and changes of proofread leaves    *)
(* one run whose content is exactly correctedText.                         *)
(***************************************************************************)
C1_SingleRunCorrected ==
  (/\ stage = "serialized"
   /\ InRuns = <<argOriginalText>>
   /\ changes = result.changes)
  => OutRuns = <<argCorrectedText>>

(***************************************************************************)
(* C8: when the exact-match check holds, every run but the last gets a     *)
(* slice of correctedText as long as its original text, the last run gets  *)
(* the rest, and the new run contents concatenate to correctedText.        *)
(***************************************************************************)
C8_RunSlices ==
  (stage = "serialized" /\ ExactMatch) =>
    /\ Len(OutRuns) = Len(InRuns)
    /\ \A k \in 1..(Len(InRuns) - 1) : Len(OutRuns[k]) = Len(InRuns[k])
    /\ Flatten(OutRuns) = argCorrectedText

C10_LedgerWithinRuns ==
  /\ [][(stage = "ledger" /\ ci <= Len(changes) /\ ~TrimmedMatch) =>
         /\ stage' = "ledger"
         /\ ci' = ci + 1
         /\ RunTexts(correctedXml') =
              [k \in 1..Len(RunTexts(correctedXml)) |->
                 LitReplace(changes[ci].original, RunTexts(correctedXml)[k],
                            changes[ci].corrected, 0)]]_vars
  /\ [](stage # "failed")

(***************************************************************************)
(* Claims about generateCorrectedDocx on any package, texts and ledger     *)
(***************************************************************************)
\* out, read from index pos on, is the segments of a body part from the k-th
\* on with nothing changed but the text between the tags of the runs
RECURSIVE MarkupKept(_, _, _, _)
MarkupKept(segs, k, out, pos) ==
  IF k > Len(segs) THEN pos = Len(out)
  ELSE IF ~segs[k].run
  THEN /\ pos < Len(out)
       /\ out[pos + 1] = segs[k].s[1]
       /\ MarkupKept(segs, k + 1, out, pos + 1)
  ELSE LET open == SubSeq(segs[k].s, 1,
                          Len(segs[k].s) - Len(segs[k].text) - Len(CloseTag))
           from == pos + Len(open)
           lt   == Scan(out, from, {"<"}, TRUE)
       IN  /\ from <= Len(out)
           /\ SubSeq(out, pos + 1, from) = open
           /\ lt + Len(CloseTag) <= Len(out)
           /\ SubSeq(out, lt + 1, lt + Len(CloseTag)) = CloseTag
           /\ MarkupKept(segs, k + 1, out, lt + Len(CloseTag))

(***************************************************************************)
(* C11: patching a body part changes only the characters between the       *)
(* opening and the closing tag of a text run: in the body part written,    *)
(* every tag and all markup outside the run texts are as they were, and no *)
(* text stands outside a run.                                              *)
(***************************************************************************)
C11_OnlyRunTextChanges ==
  stage = "serialized" => MarkupKept(Segments(xml, 0), 1, outXml, 0)

(***************************************************************************)
(* C19: when the body part cannot be located or a later step of the patch  *)
(* throws, the regeneration is aborted: every such step ends in the failed *)
(* state, from which nothing is written or serialized, no output exists,   *)
(* and the original package is never changed.                              *)
(***************************************************************************)
C19_AbortWithoutOutput ==
  /\ [][(stage = "call" /\ BodyPartMissing(xml)) => stage' = "failed"]_vars
  /\ [][(/\ stage = "ledger"
         /\ ci <= Len(changes)
         /\ HasRun(correctedXml)
         /\ ~RegExpCompiles(escapeRegExp(changes[ci].original)))
        => stage' = "failed"]_vars
  /\ [][stage = "failed" => (stage' = "failed" /\ outXml' = outXml)]_vars
  /\ [](stage = "failed" => outXml = <<>>)
  /\ [](outXml # <<>> => stage = "serialized")
  /\ [][xml' = xml]_vars

\* the patch failed at a later step, after the ledger had already changed
\* the body part in memory, and nothing was written
C19_Witness ==
  /\ stage = "failed"
  /\ ~BodyPartMissing(xml)
  /\ correctedXml # xml
  /\ outXml = <<>>

(***************************************************************************)
(* Claims about the regeneration of a spreadsheet package                  *)
(***************************************************************************)
\* the ledger's substitutions applied literally, one after the other in
\* ledger order, from entry k on
RECURSIVE LitLedgerFold(_, _, _)
LitLedgerFold(chs, k, v) ==
  IF k > Len(chs) THEN v
  ELSE LitLedgerFold(chs, k + 1,
                     LitReplace(chs[k].original, v, chs[k].corrected, 0))

\* some substitution of that sequence changes the value it is applied to
RECURSIVE LitLedgerChanges(_, _, _)
LitLedgerChanges(chs, k, v) ==
  IF k > Len(chs) THEN FALSE
  ELSE LET nv == LitReplace(chs[k].original, v, chs[k].corrected, 0)
       IN  nv # v \/ LitLedgerChanges(chs, k + 1, nv)

LedgerOriginals(chs) == {chs[k].original : k \in 1..Len(chs)}

\* no original of the ledger holds a character of the class escapeRegExp is
\* written for
LiteralLedger(chs) ==
  \A o \in LedgerOriginals(chs) : \A i \in 1..Len(o) : o[i] \notin EscapeClass

(***************************************************************************)
(* C12: a cell whose type is not string is never modified: while the sheet *)
(* is patched and in the package written, every number, boolean and date   *)
(* cell has the type, value and display string it had, whatever the ledger *)
(* and whatever its display string contains.                               *)
(***************************************************************************)
C12_NonStringCellsUntouched ==
  /\ worksheet # <<>> =>
       \A k \in 1..Len(workbook) :
         workbook[k].t # "s" => CellsOf(worksheet)[k] = workbook[k]
  /\ stage = "written" =>
       /\ Len(outWorkbook) = Len(workbook)
       /\ \A k \in 1..Len(workbook) :
            workbook[k].t # "s" => outWorkbook[k] = workbook[k]

\* a package is written in which a string cell was rewritten and a cell of
\* another type, whose display string holds a ledger original, was not
C12_Witness ==
  /\ stage = "written"
  /\ rewritten # {}
  /\ \E k \in 1..Len(workbook) :
       /\ workbook[k].t # "s"
       /\ \E o \in LedgerOriginals(changes) : Contains(workbook[k].w, o)
       /\ outWorkbook[k] = workbook[k]

(***************************************************************************)
(* C13: after patching with the ledger of proofread, the value of a string *)
(* cell that held a ledger original is the result of the ledger's          *)
(* substitutions applied literally in ledger order (the originals that     *)
(* remain in the cell are then those that this result holds).  Taken on    *)
(* the tables of literal forms.                                            *)
(***************************************************************************)
C13_StringCellsCorrected ==
  (stage = "written" /\ LiteralTable(rules)) =>
    \A k \in 1..Len(workbook) :
      (/\ workbook[k].t = "s"
       /\ \E o \in LedgerOriginals(changes) : Contains(workbook[k].v, o))
      => outWorkbook[k].v = LitLedgerFold(changes, 1, workbook[k].v)

(***************************************************************************)
(* C14: every entry of the ledger takes part: also when two entries have   *)
(* the same original and different corrected strings, a string cell gets   *)
(* the substitutions of all entries, applied in ledger order.              *)
(***************************************************************************)
C14_EveryEntryApplied ==
  (stage = "written" /\ LiteralLedger(changes)) =>
    \A k \in 1..Len(workbook) :
      IsStringCell(workbook[k]) =>
        outWorkbook[k].v = LitLedgerFold(changes, 1, workbook[k].v)

(***************************************************************************)
(* C15: a string cell is rewritten if and only if a ledger substitution    *)
(* changed its value; a rewritten cell has the same string as value and as *)
(* display string; a cell that was not rewritten, and so every string cell *)
(* holding no ledger original, has the value and display string it had.    *)
(***************************************************************************)
C15_RewrittenIffChanged ==
  stage = "written" =>
    \A k \in 1..Len(workbook) :
      workbook[k].t = "s" =>
        /\ (k \in rewritten) <=> LitLedgerChanges(changes, 1, workbook[k].v)
        /\ k \in rewritten => outWorkbook[k].v = outWorkbook[k].w
        /\ k \notin rewritten => outWorkbook[k] = workbook[k]
        /\ (\A o \in LedgerOriginals(changes) : ~Contains(workbook[k].v, o))
           => (k \notin rewritten /\ outWorkbook[k] = workbook[k])

(***************************************************************************)
(* C16: extracting the text of a spreadsheet package, proofreading it and  *)
(* patching the package with the resulting ledger gives a package whose    *)
(* extracted text is proofread's correctedText, and no step fails.  Taken  *)
(* on the tables of literal forms and the sheets of string cells.          *)
(***************************************************************************)
OnlyStringCells(cells) == \A k \in 1..Len(cells) : cells[k].t = "s"

C16_XlsxRoundTrip ==
  (LiteralTable(rules) /\ OnlyStringCells(workbook)) =>
    /\ pc # "threw"
    /\ stage # "failed"
    /\ stage = "written" => parseXlsx(outWorkbook) = argCorrectedText

(***************************************************************************)
(* Claims about extraction                                                 *)
(***************************************************************************)
StrategyStages == {"pdocx", "pxlsx", "ptext", "punsupported"}

(***************************************************************************)
(* C17: for a buffer of more than 10 MiB, whatever the declared kind and   *)
(* the file name, parseBuffer returns a failure that names the limit and   *)
(* no package is opened and no text decoded; a buffer of at most 10 MiB is *)
(* never rejected for its size.                                            *)
(***************************************************************************)
C17_SizeLimit ==
  /\ buffer.length > MaxFileSize =>
       /\ ~opened
       /\ stage \in {"pcall", "preturned"}
       /\ stage = "preturned" => parseResult = Failure("sizeLimit")
  /\ (parseResult.returned /\ buffer.length <= MaxFileSize) =>
       parseResult.error # "sizeLimit"

\* a word-processing package of more than 10 MiB, declared as one, came
\* back as a failure
C17_Witness ==
  /\ stage = "preturned"
  /\ buffer.length > MaxFileSize
  /\ buffer.holds = "docx"
  /\ mimeType = DocxMime
  /\ ~parseResult.success

(***************************************************************************)
(* C20: the extension of the file name takes part in the choice of the     *)
(* extraction strategy only for the generic declared kind: for any other   *)
(* declared kind the strategy chosen is the one chosen for every other     *)
(* file name (unsupported counting as a choice).                           *)
(***************************************************************************)
C20_ExtensionOnlyForGeneric ==
  (stage \in StrategyStages /\ mimeType # GenericMime) =>
    \A name \in FileNames : Strategy(mimeType, ExtensionOf(name)) = stage

(***************************************************************************)
(* Claims about the public boundary of the three components                *)
(***************************************************************************)
(***************************************************************************)
(* C18, as claimed: no failure is thrown across the public boundary; here  *)
(* for proofread and for generateCorrectedFile, called with arguments of   *)
(* the declared types.                                                     *)
(***************************************************************************)
C18_NeverThrown ==
  /\ pc # "threw"
  /\ ~(stage = "thrown" /\ extension \in FileExtensions)

(***************************************************************************)
(* C18, amended: only extraction returns its failures as a value.          *)
(* parseBuffer returns a failure with an error for every failure of a      *)
(* buffer that has a length, and throws only without a buffer.  proofread  *)
(* has no failure value: a step that fails throws and nothing is returned. *)
(* generateCorrectedFile throws on every failure of the generator it       *)
(* chose, a missing body part included, and gives no output then.          *)
(***************************************************************************)
C18_FailuresAtBoundary ==
  /\ [](stage = "thrown" /\ extension = "none" => buffer.holds = "undefined")
  /\ [](parseResult.returned /\ ~parseResult.success => parseResult.error # "none")
  /\ [][(/\ stage = "pdocx"
         /\ stage' # stage
         /\ (buffer.holds # "docx" \/ BodyPartMissing(xml)))
        => (stage' = "preturned" /\ ~parseResult'.success)]_vars
  /\ [][(stage = "punsupported" /\ stage' # stage)
        => (stage' = "preturned" /\ ~parseResult'.success)]_vars
  /\ [][(pc = "idle" /\ pc' # "idle" /\ ~rulesDefined) => pc' = "threw"]_vars
  /\ [][(/\ PairPending
         /\ <<ri, fi, pc>>' # <<ri, fi, pc>>
         /\ rules[ri].incorrect[fi] # rules[ri].correct
         /\ ~RegExpCompiles(escapeRegExp(rules[ri].incorrect[fi])))
        => pc' = "threw"]_vars
  /\ [](pc = "threw" => result = NoResult)
  /\ [][(stage = "call" /\ stage' # stage /\ BodyPartMissing(xml))
        => stage' = "failed"]_vars
  /\ [][(stage = "failed" /\ stage' # stage /\ extension \in FileExtensions)
        => stage' = "thrown"]_vars
  /\ [](stage \in {"failed", "thrown"} => (outXml = <<>> /\ outWorkbook = <<>>))

\* generateCorrectedFile has thrown for a word-processing package without a
\* body part
C18_Witness ==
  /\ stage = "thrown"
  /\ extension = "docx"
  /\ BodyPartMissing(xml)

(***************************************************************************)
(* Claims about the kinds parseBuffer recognises                           *)
(***************************************************************************)
RecognizedKinds == {DocxMime, XlsxMime, "text/plain", "text/csv"}
RecognizedExtensions == {<<"d", "o", "c", "x">>, <<"x", "l", "s", "x">>,
                         <<"t", "x", "t">>, <<"c", "s", "v">>}
Unrecognized ==
  /\ mimeType \notin RecognizedKinds
  /\ ExtensionOf(fileName) \notin RecognizedExtensions

(***************************************************************************)
(* C21, as claimed: whenever neither the declared kind nor the extension   *)
(* of the file name is recognised, the result parseBuffer returns is the   *)
(* failure that names the unsupported format.                              *)
(***************************************************************************)
C21_AlwaysUnsupported ==
  (Unrecognized /\ stage = "preturned") => parseResult = Failure("unsupported")

(***************************************************************************)
(* C21, amended: for a buffer within the size limit, whenever neither the  *)
(* declared kind nor the extension of the file name is recognised,         *)
(* parseBuffer returns the failure that names the unsupported format and   *)
(* runs no parsing strategy; a buffer over the limit is answered with the  *)
(* size failure first, and no strategy is run either.                      *)
(***************************************************************************)
C21_UnsupportedFormat ==
  Unrecognized =>
    /\ ~opened
    /\ stage \in {"pcall", "punsupported", "preturned", "thrown"}
    /\ stage = "preturned" =>
         parseResult = IF TooLarge(buffer.length) THEN Failure("sizeLimit")
                       ELSE Failure("unsupported")

\* a buffer within the limit, of a kind and an extension the parser does
\* not know, came back as the unsupported-format failure
C21_Witness ==
  /\ Unrecognized
  /\ stage = "preturned"
  /\ ~TooLarge(buffer.length)
  /\ parseResult = Failure("unsupported")

(***************************************************************************)
(* Claims about the document built without an original package             *)
(***************************************************************************)
\* the trimmed non-blank segments of text between blank lines
BlankLineSegments(text) ==
  LET parts == Split(text, <<"\n", "\n">>, 0)
      RECURSIVE Keep(_)
      Keep(k) == IF k > Len(parts) THEN <<>>
                 ELSE (IF Trim(parts[k]) # <<>> THEN <<Trim(parts[k])>> ELSE <<>>)
                      \o Keep(k + 1)
  IN  Keep(1)

(***************************************************************************)
(* C22: when no original package is supplied or the extension is neither   *)
(* docx nor xlsx, generateCorrectedFile does not fail, and the document it *)
(* returns has one paragraph for each trimmed non-blank segment of         *)
(* correctedText between blank lines, in order.                            *)
(***************************************************************************)
C22_NoStructureFallback ==
  (extension \in FileExtensions
     /\ (extension \notin {"docx", "xlsx"} \/ buffer = NoPackage)) =>
    /\ stage \in {"fcall", "simple", "serialized"}
    /\ stage = "serialized" =>
         outXml = Flatten([k \in 1..Len(BlankLineSegments(argCorrectedText)) |->
                            RunXml(BlankLineSegments(argCorrectedText)[k])])

(***************************************************************************)
(* Claims about the loops of proofread                                     *)
(***************************************************************************)
(***************************************************************************)
(* C24: the iteration of the inner loop for a form equal to the correct    *)
(* form of its rule appends no Change and leaves the working text as it    *)
(* is, whatever the working text, and the loop goes on with the next form  *)
(* of the same rule.                                                       *)
(***************************************************************************)
C24_EqualFormSkipped ==
  [][(/\ PairPending
      /\ rules[ri].incorrect[fi] = rules[ri].correct
      /\ <<pc, ri, fi>>' # <<pc, ri, fi>>)
     => (/\ correctedText' = correctedText
         /\ allChanges' = allChanges
         /\ pc' = "loop"
         /\ ri' = ri
         /\ fi' = fi + 1)]_vars

\* a form equal to the correct form was passed over on a text that holds
\* it, and a later form of the same rule was applied
C24_Witness ==
  /\ pc = "loop"
  /\ \E k \in 1..Len(allChanges) :
       /\ allChanges[k].rule.incorrect[1] = allChanges[k].rule.correct
       /\ allChanges[k].original # allChanges[k].rule.correct
       /\ Contains(originalText, allChanges[k].rule.correct)

\* how many times c occurs in the sequence
CountIn(seq, c) == Cardinality({k \in 1..Len(seq) : seq[k] = c})

(***************************************************************************)
(* C25: the changes proofread returns are in order of non-increasing       *)
(* start, and sorting changes nothing else: the corrected text returned is *)
(* the working text the loops ended with, totalChanges is the number of    *)
(* Changes recorded, and every Change occurs as often after the sort as    *)
(* before.                                                                 *)
(***************************************************************************)
C25_SortedForPresentation ==
  [][(pc = "loop" /\ pc' = "done")
     => (/\ \A k \in 1..(Len(result'.changes) - 1) :
              result'.changes[k].start >= result'.changes[k + 1].start
         /\ result'.correctedText = correctedText
         /\ result'.totalChanges = Len(allChanges)
         /\ Len(result'.changes) = Len(allChanges)
         /\ \A k \in 1..Len(allChanges) :
              CountIn(result'.changes, allChanges[k]) = CountIn(allChanges, allChanges[k]))]_vars

\* a result in which the sort moved something: two Changes of one
\* (rule, form) pair, recorded in ascending order, returned in descending
C25_Witness ==
  /\ pc = "done"
  /\ pass = 1
  /\ \E k \in 1..(Len(result.changes) - 1) :
       /\ result.changes[k].original = result.changes[k + 1].original
       /\ result.changes[k].rule = result.changes[k + 1].rule
       /\ result.changes[k].start > result.changes[k + 1].start

(***************************************************************************)
(* C28: proofread terminates, in both engines, for every rule table and    *)
(* text, tables with an empty incorrect form and with a correct form that  *)
(* contains its incorrect form included: a call that has entered the loops *)
(* returns or throws; each iteration of the inner loop moves on to the     *)
(* next form, so each (rule, form) pair is processed once; and the matches *)
(* one iteration records lie at strictly increasing offsets of the working *)
(* text, at most one more than it has characters.                          *)
(***************************************************************************)
C28_Terminates ==
  /\ (pc = "loop") ~> (pc \in {"done", "threw"})
  /\ (single.pc = "loop") ~> (single.pc \in {"done", "threw"})
  /\ [][(PairPending /\ <<pc, ri, fi, allChanges>>' # <<pc, ri, fi, allChanges>>)
        => (pc' = "threw" \/ (pc' = "loop" /\ ri' = ri /\ fi' = fi + 1))]_vars
  /\ [][(pc = "loop" /\ pc' = "loop" /\ ri' # ri)
        => (ri' = ri + 1 /\ fi > Len(rules[ri].incorrect) /\ fi' = 1)]_vars
  /\ [][(single.pc = "loop" /\ single' # single)
        => \/ single'.pc \in {"done", "threw"}
           \/ single'.ri = single.ri /\ single'.fi = single.fi + 1
           \/ single'.ri = single.ri + 1 /\ single'.fi = 1]_vars
  /\ [][(PairPending /\ Len(allChanges') > Len(allChanges))
        => (/\ Len(allChanges') - Len(allChanges) <= Len(correctedText) + 1
            /\ \A k \in (Len(allChanges) + 1)..Len(allChanges') :
                 /\ allChanges'[k].start \in 0..Len(correctedText)
                 /\ k > Len(allChanges) + 1 =>
                      allChanges'[k].start > allChanges'[k - 1].start)]_vars

\* both engines have returned for a table that holds a rule with an empty
\* incorrect form and a rule whose correct form contains its incorrect
\* form, and both rules were applied
C28_Witness ==
  /\ pc = "done"
  /\ single.pc = "done"
  /\ \E k \in 1..Len(result.changes) : result.changes[k].original = <<>>
  /\ \E k \in 1..Len(result.changes) :
       /\ result.changes[k].original # <<>>
       /\ Contains(result.changes[k].corrected, result.changes[k].original)

\* the (original, corrected) pairs of a ledger
LedgerPairs(chs) == {<<chs[k].original, chs[k].corrected>> : k \in 1..Len(chs)}

C29_ShortTextOnly ==
  /\ [][(stage = "short" /\ (correctedXml' # correctedXml \/ stage' = "failed"))
        => (argOriginalText # <<>> /\ Len(argOriginalText) < ShortTextLimit)]_vars
  /\ []((Len(argOriginalText) >= ShortTextLimit /\ stage \in {"applied", "serialized"})
        => (/\ correctedXml = LedgerFold(xml, changes, 1)
            /\ changes = <<>> => correctedXml = xml
            /\ stage = "serialized" => outXml = correctedXml))

\* a body part whose run is the pre-correction text of exactly 100
\* characters came back unchanged, with a corrected text given and an empty
\* ledger
C29_Witness ==
  /\ stage = "serialized"
  /\ Len(argOriginalText) = ShortTextLimit
  /\ xml = RunXml(argOriginalText)
  /\ argCorrectedText # <<>>
  /\ changes = <<>>
  /\ outXml = xml

(***************************************************************************)
(* Worksheet rendering                                                     *)
(***************************************************************************)
\* the pieces of str between occurrences of sep that are not empty
PiecesOf(str, sep) ==
  LET parts == Split(str, sep, 0) IN
  SelectSeq(parts, LAMBDA part : part # <<>>)

\* the values of the lines of a rendering, line by line
RenderedValues(text) ==
  LET lines == PiecesOf(text, NewlineMark) IN
  [i \in 1..Len(lines) |-> PiecesOf(lines[i], TabMark)]

\* C26: a worksheet is rendered row by row in ascending numeric row number;
\* within a row the cells are taken in ascending plain string order of their
\* column letters (AA before B); a shared-string cell is resolved by its
\* integer index into the shared strings; cells whose resolved value is empty
\* or whose index is out of range are omitted, and so are rows left with no
\* value.
C26_WorksheetOrder ==
  (stage = "preturned" /\ Len(workbook.sheets) = 1) =>
    LET cells == workbook.sheets[1]
        sharedStrings == parseSharedStrings(workbook.sharedStrings)
        rs == SheetRows(cells, sharedStrings)
        Resolved(k) ==
          IF cells[k].t = "s"
          THEN (IF parseInt(cells[k].v) \in 0..(Len(sharedStrings) - 1)
                THEN sharedStrings[parseInt(cells[k].v) + 1] ELSE <<>>)
          ELSE cells[k].v
        IsLast(k) ==
          \A j \in (k + 1)..Len(cells) :
            ~(cells[j].col = cells[k].col
              /\ parseInt(cells[j].row) = parseInt(cells[k].row))
    IN
    /\ RenderedValues(parseResult.text)
         = [i \in 1..Len(rs) |->
              [j \in 1..Len(rs[i].entries) |-> rs[i].entries[j].value]]
    /\ \A i, j \in 1..Len(rs) : i < j => rs[i].rowNum < rs[j].rowNum
    /\ \A i \in 1..Len(rs) :
         /\ rs[i].entries # <<>>
         /\ \A j, l \in 1..Len(rs[i].entries) :
              j < l => StringBefore(rs[i].entries[j].col, rs[i].entries[l].col)
         /\ \A j \in 1..Len(rs[i].entries) :
              /\ rs[i].entries[j].value # <<>>
              /\ \E k \in 1..Len(cells) :
                   /\ IsLast(k)
                   /\ parseInt(cells[k].row) = rs[i].rowNum
                   /\ cells[k].col = rs[i].entries[j].col
                   /\ Resolved(k) = rs[i].entries[j].value
    /\ \A k \in 1..Len(cells) :
         (IsLast(k) /\ Resolved(k) # <<>>) =>
           \E i \in 1..Len(rs) : \E j \in 1..Len(rs[i].entries) :
             /\ rs[i].rowNum = parseInt(cells[k].row)
             /\ rs[i].entries[j] = [col |-> cells[k].col, value |-> Resolved(k)]

\* a row with a value in column B and a value in column AA has been rendered,
\* the value of AA first
C26_Witness ==
  /\ stage = "preturned"
  /\ workbook.sheets = <<<<XmlCell(<<"B">>, <<"2">>, "s", <<"0">>),
                           XmlCell(<<"A", "A">>, <<"2">>, "n", <<"7">>)>>>>
  /\ RenderedValues(parseResult.text) = <<<<<<"7">>, <<"a">>>>>>

\* the values of the rows of a sheet part, in the order of the rendering
RowsOfValues(cells, sharedStrings) ==
  LET rs == SheetRows(cells, sharedStrings) IN
  [i \in 1..Len(rs) |->
     [j \in 1..Len(rs[i].entries) |-> rs[i].entries[j].value]]

\* strs joined with sep between them
RECURSIVE JoinWith(_, _)
JoinWith(strs, sep) ==
  IF strs = <<>> THEN <<>>
  ELSE IF Len(strs) = 1 THEN strs[1]
  ELSE strs[1] \o sep \o JoinWith(Tail(strs), sep)

\* C27: in the text extracted from a spreadsheet the values of a row are
\* separated by exactly one tab character (U+0009), the rows by a newline
\* character (U+000A), and no other separator characters are inserted.
C27_TabAndNewline ==
  (stage = "preturned" /\ Len(workbook.sheets) = 1) =>
    LET rows == RowsOfValues(workbook.sheets[1],
                             parseSharedStrings(workbook.sharedStrings))
    IN  parseResult.text
          = JoinWith([i \in 1..Len(rows) |-> JoinWith(rows[i], <<"\t">>)],
                     <<"\n">>)

(***************************************************************************)
(* Concurrent requests                                                     *)
(***************************************************************************)
\* what the call would return run alone on its arguments
AloneResult(c) ==
  CASE c.kind = "proofread" -> proofread(rulesDefined, rules, c.text)
    [] c.kind = "extract"   -> parseDocx(c.body)
    [] c.kind = "patch"     ->
         generateCorrectedDocx(c.body, c.text, c.corrected, c.changes)
    [] OTHER                -> Returned(<<>>, <<>>)

\* C23: in any interleaving of concurrent extract, proofread and patch calls
\* every call returns (or throws) what it would run alone on the same
\* arguments, and no step of a call changes the rule table the engine was
\* constructed with.
C23_CallsIndependent ==
  /\ [](\A i \in CallIds :
          /\ calls.call[i].at = "returned" =>
               calls.call[i].result = AloneResult(calls.call[i])
          /\ calls.call[i].at = "threw" => AloneResult(calls.call[i]).threw)
  /\ [][pc # "new" => (rules' = rules /\ rulesDefined' = rulesDefined)]_vars

\* two patch calls were in progress together: the second went from call to
\* return while the first stood at an await with its patched part, and each
\* part is the one of its own arguments
C23_Witness ==
  /\ calls.call[1].kind = "patch" /\ calls.call[1].at = "applied"
  /\ calls.call[1].body = RunXml(<<"a">>)
  /\ calls.call[1].changes = <<Entry(<<"a">>, <<"b">>)>>
  /\ calls.locals[1] = RunXml(<<"b">>)
  /\ calls.call[2].kind = "patch" /\ calls.call[2].at = "returned"
  /\ calls.call[2].body = RunXml(<<"a">>)
  /\ calls.call[2].changes = <<>>
  /\ calls.call[2].result.text = RunXml(<<"a">>)

=============================================================================
